---- MODULE Spec2Model ----
(***************************************************************************)
(* A model of the nested-grid core of MUSIC: the grid store                *)
(* (GridHierarchy, src/src/mesh.hh), the level geometry resolver           *)
(* (refinement_hierarchy, src/src/mesh.hh) and the density assembly        *)
(* pipeline (src/src/densities.cc).                                        *)
(*                                                                         *)
(* Conventions.  A triple <<x, y, z>> holds one value per dimension;       *)
(* dimension d of the code (0, 1, 2) is index d + 1.  Level L of a vector  *)
(* indexed by level is element L + 1 of the sequence that models it.       *)
(* C++ int and unsigned are 32 bits wide; an unsigned value is modelled by *)
(* the signed value with the same bit pattern, so +, - and * agree on both *)
(* and only /, %, comparisons and widening tell them apart.                *)
(***************************************************************************)
EXTENDS Integers, Naturals, Sequences, FiniteSets, TLC

VARIABLES
    gh,      \* the grid store the operations act on (a GridHierarchy)
    other,   \* a second GridHierarchy, the right operand of the operators
    refh,    \* the geometry record (a refinement_hierarchy), or NoRefh
    cf,      \* the configuration the geometry record is built from
    ret,     \* what the last operation returned or raised
    pc,      \* position of the running procedure
    nops,    \* number of mutating operations applied so far
    wk       \* the locals of the running density routine: its working
             \* grids and the calls it has made so far

vars == <<gh, other, refh, cf, ret, pc, nops, wk>>

-----------------------------------------------------------------------------
(* 32-bit machine arithmetic *)

MaxInt32 == 2147483647
MinInt32 == -MaxInt32 - 1

Dims == 1..3

\* a + b reduced mod 2^32 into the int range, for a, b in the int range
Add32(a, b) ==
    IF a > 0 /\ b > 0 /\ a > MaxInt32 - b
    THEN (a - MaxInt32 - 1) + (b - MaxInt32 - 1)
    ELSE IF a < 0 /\ b < 0 /\ a < MinInt32 - b
         THEN (a + MaxInt32 + 1) + (b + MaxInt32 + 1)
         ELSE a + b

Neg32(a) == IF a = MinInt32 THEN MinInt32 ELSE -a

Sub32(a, b) ==
    IF b = MinInt32
    THEN (IF a < 0 THEN a + MaxInt32 + 1 ELSE (a - MaxInt32) - 1)
    ELSE Add32(a, -b)

Dbl32(a) == Add32(a, a)

\* 2^32 mod m, for m > 0
Two32Mod(m) == (2 * ((MaxInt32 % m) + 1)) % m

\* the unsigned value with the bit pattern of the int s, taken modulo m > 0
UMod(s, m) == IF s >= 0 THEN s % m ELSE ((s % m) + Two32Mod(m)) % m

\* unsigned s / 2, as the int with the same bit pattern
UHalf(s) == IF s >= 0 THEN s \div 2 ELSE MaxInt32 + ((s \div 2) + 1)

\* C's signed division and remainder (truncation toward zero)
\* (the divisor b is positive wherever the model divides)
CDiv(a, b) == IF a >= 0 THEN a \div b ELSE -((-a) \div b)

CRem(a, b) == a - b * CDiv(a, b)

Pow2(n) == IF n <= 0 THEN 1 ELSE 2 ^ n

Max2(a, b) == IF a >= b THEN a ELSE b
Max3(t) == Max2(t[1], Max2(t[2], t[3]))

Zero3 == <<0, 0, 0>>
Cube(n) == <<n, n, n>>

-----------------------------------------------------------------------------
(* Cell values.  A value is a rational <<p, q>> in lowest terms with q > 0; *)
(* <<0, 0>> stands for a value the program does not determine (a read of   *)
(* uninitialised or out-of-range memory, or a non-finite result).          *)

RECURSIVE Gcd(_, _)
Gcd(a, b) == IF b = 0 THEN a ELSE Gcd(b, a % b)

Abs(a) == IF a < 0 THEN -a ELSE a

Indet == <<0, 0>>
RZero == <<0, 1>>
RInt(n) == <<n, 1>>

RNorm(p, q) ==
    IF q = 0 THEN Indet
    ELSE LET s == IF q < 0 THEN -1 ELSE 1
             g == Gcd(Abs(p), Abs(q))
         IN  <<(s * p) \div g, (s * q) \div g>>

RAdd(a, b) == IF a[2] = 0 \/ b[2] = 0 THEN Indet
              ELSE RNorm(a[1] * b[2] + b[1] * a[2], a[2] * b[2])
RSub(a, b) == IF a[2] = 0 \/ b[2] = 0 THEN Indet
              ELSE RNorm(a[1] * b[2] - b[1] * a[2], a[2] * b[2])
RMul(a, b) == IF a[2] = 0 \/ b[2] = 0 THEN Indet
              ELSE RNorm(a[1] * b[1], a[2] * b[2])
RDiv(a, b) == IF a[2] = 0 \/ b[2] = 0 THEN Indet
              ELSE RNorm(a[1] * b[2], a[2] * b[1])

RECURSIVE RSum(_, _)
\* the sum of f over the finite set S of its arguments
RSum(f, S) ==
    IF S = {} THEN RZero
    ELSE LET c == CHOOSE x \in S : TRUE
         IN  RAdd(f[c], RSum(f, S \ {c}))

-----------------------------------------------------------------------------
(* Meshvar / MeshvarBnd: one rectangular array with a ghost margin *)

\* the index triples of the logical cells of an array of extent n
Logical(n) == (0..(n[1] - 1)) \X (0..(n[2] - 1)) \X (0..(n[3] - 1))

\* the index triples of all allocated cells: extent n plus nb ghost cells a face
Padded(n, nb) ==
    ((-nb)..(n[1] + nb - 1)) \X ((-nb)..(n[2] + nb - 1)) \X ((-nb)..(n[3] + nb - 1))

\* MeshvarBnd(nbnd, nx, ny, nz, xoff, yoff, zoff): the data is not initialised
MeshvarBnd(nb, n, off) ==
    [n |-> n, off |-> off, nbnd |-> nb, data |-> [c \in Padded(n, nb) |-> Indet]]

\* Meshvar::zero
zero(m) == [m EXCEPT !.data = [c \in DOMAIN m.data |-> RZero]]

\* MeshvarBnd::operator(): the cell at (ix, iy, iz); outside the allocation
\* the read is out of bounds
At(m, c) == IF c \in DOMAIN m.data THEN m.data[c] ELSE Indet

\* m_nx * m_ny * m_nz, the allocated element count
Alloc(m) == (m.n[1] + 2 * m.nbnd) * (m.n[2] + 2 * m.nbnd) * (m.n[3] + 2 * m.nbnd)

\* position of cell c in the flat array m_pdata, and back
Flat(m, c) ==
    ((c[1] + m.nbnd) * (m.n[2] + 2 * m.nbnd) + (c[2] + m.nbnd)) * (m.n[3] + 2 * m.nbnd)
        + (c[3] + m.nbnd)

Unflat(m, f) ==
    LET NY == m.n[2] + 2 * m.nbnd
        NZ == m.n[3] + 2 * m.nbnd
    IN  <<(f \div (NY * NZ)) - m.nbnd, ((f \div NZ) % NY) - m.nbnd, (f % NZ) - m.nbnd>>

\* Meshvar::operator op= (const Meshvar&): element-wise on the flat arrays
MeshOp(op, a, b) ==
    CASE op = "add" -> RAdd(a, b)
      [] op = "sub" -> RSub(a, b)
      [] op = "mul" -> RMul(a, b)
      [] op = "div" -> RDiv(a, b)

MeshCompatible(m, v) == Alloc(v) = Alloc(m)

MeshApply(op, m, v) ==
    [m EXCEPT !.data = [c \in DOMAIN m.data |->
                            MeshOp(op, m.data[c], v.data[Unflat(v, Flat(m, c))])]]

\* refinement_mask(nx, ny, nz, value): a flat vector of shorts
refinement_mask(n, value) ==
    [n |-> n, mask |-> [f \in 1..(n[1] * n[2] * n[3]) |-> value]]

\* position of (i, j, k) in refinement_mask::mask_ (1-based)
MaskIdx(r, c) == (c[1] * r.n[2] + c[2]) * r.n[3] + c[3] + 1

MaskAt(r, c) == r.mask[MaskIdx(r, c)]

-----------------------------------------------------------------------------
(* GridHierarchy *)

\* GridHierarchy(nbnd): an empty hierarchy
GridHierarchy(nb) ==
    [nbnd |-> nb, levelmin |-> 0, pgrids |-> <<>>, offabs |-> <<>>,
     ref_masks |-> <<>>, bhave_refmask |-> FALSE]

\* levelmax(): m_pgrids.size() - 1 as unsigned; -1 is the bit pattern of 2^32 - 1
levelmax(g) == Len(g.pgrids) - 1
levelmin(g) == g.levelmin

Levels(g) == 0..(Len(g.pgrids) - 1)

grid(g, L) == g.pgrids[L + 1]
size(g, L, d) == grid(g, L).n[d]
offset(g, L, d) == grid(g, L).off[d]
offset_abs(g, L, d) == g.offabs[L + 1][d]

\* get_grid(ilevel), const and non-const: the level's grid, or the error raised
NonExistentGrid == "Fatal: attempt to access non-existent grid"

\* (mutant: the bounds check admits the level one past the last)
get_grid_past_end(g, ilevel) ==
    IF ilevel > Len(g.pgrids)
    THEN [error |-> NonExistentGrid]
    ELSE [grid |-> ilevel]

get_grid(g, ilevel) ==
    IF ilevel >= Len(g.pgrids)
    THEN [error |-> NonExistentGrid]
    ELSE [grid |-> ilevel]

\* deallocate(): bhave_refmask and m_nbnd are left as they are
deallocate(g) ==
    [g EXCEPT !.pgrids = <<>>, !.offabs = <<>>, !.levelmin = 0, !.ref_masks = <<>>]

\* value a seeded mask of level i holds: (short)(i != lmax)
SeedValue(i, lmax) == IF i # lmax THEN 1 ELSE 0

\* (mutant: the masks of the previous hierarchy are kept)
create_base_hierarchy_keeps_masks(g, lmax) ==
    [g EXCEPT
       !.pgrids = [i \in 1..(lmax + 1) |->
                      zero(MeshvarBnd(g.nbnd, Cube(Pow2(i - 1)), Zero3))],
       !.offabs = [i \in 1..(lmax + 1) |-> Zero3],
       !.levelmin = lmax,
       !.ref_masks = g.ref_masks \o
           [i \in 1..(lmax + 1) |->
               refinement_mask(Cube(Pow2(i - 1)), SeedValue(i - 1, lmax))]]

create_base_hierarchy(g, lmax) ==
    LET d == deallocate(g)
    IN  [d EXCEPT
           !.pgrids = [i \in 1..(lmax + 1) |->
                          zero(MeshvarBnd(g.nbnd, Cube(Pow2(i - 1)), Zero3))],
           !.offabs = [i \in 1..(lmax + 1) |-> Zero3],
           !.levelmin = lmax,
           !.ref_masks = d.ref_masks \o
               [i \in 1..(lmax + 1) |->
                   refinement_mask(Cube(Pow2(i - 1)), SeedValue(i - 1, lmax))]]

\* (mutant: the absolute offset is not doubled into the finer level's units)
add_patch_abs_not_doubled(g, off, n) ==
    LET back == g.offabs[Len(g.offabs)]
    IN  [g EXCEPT
           !.pgrids = Append(@, zero(MeshvarBnd(g.nbnd, n, off))),
           !.offabs = Append(@, [d \in Dims |-> Add32(back[d], off[d])]),
           !.ref_masks = Append(@, refinement_mask(n, 0))]

\* add_patch(xoff, yoff, zoff, nx, ny, nz); the hierarchy is not empty
add_patch(g, off, n) ==
    LET back == g.offabs[Len(g.offabs)]
    IN  [g EXCEPT
           !.pgrids = Append(@, zero(MeshvarBnd(g.nbnd, n, off))),
           !.offabs = Append(@, [d \in Dims |-> Dbl32(Add32(back[d], off[d]))]),
           !.ref_masks = Append(@, refinement_mask(n, 0))]

\* find_new_levelmin() of GridHierarchy: only the extents are compared
IsFullExtent(m, i) == m.n = Cube(Pow2(i))

find_new_levelmin(g) ==
    LET full == {i \in Levels(g) : IsFullExtent(grid(g, i), i)}
    IN  IF full = {} THEN g
        ELSE [g EXCEPT !.levelmin = CHOOSE i \in full : \A j \in full : j <= i]

\* the offset delta of cut_patch, an unsigned
CutDelta(g, ilevel, xoff) == [d \in Dims |-> Sub32(xoff[d], g.offabs[ilevel + 1][d])]

\* the relative offset the cut level gets: offset + dx / 2, computed unsigned
CutTop(g, ilevel, dx) ==
    [d \in Dims |-> Add32(grid(g, ilevel).off[d], UHalf(dx[d]))]

\* (mutant: the cells are copied without the shift)
Shift3_unshifted(c, dx) == c

Shift3(c, dx) == <<Add32(c[1], dx[1]), Add32(c[2], dx[2]), Add32(c[3], dx[3])>>

\* (mutant: the coarse mean is taken over nx * ny * nz cells)
HalfBox_whole(n) == Logical(n)

HalfBox(n) == Logical(<<n[1] \div 2, n[2] \div 2, n[3] \div 2>>)

\* sum / count, the mean the code forms in doubles; 0 / 0 is not a number
Mean(sum, count) == IF count = 0 THEN Indet ELSE RDiv(sum, RInt(count))

\* cut_patch(ilevel, xoff, yoff, zoff, nx, ny, nz, enforce_coarse_mean),
\* past its assertion; level ilevel exists
cut_patch(g, ilevel, xoff, n, enforce_coarse_mean) ==
    LET old == grid(g, ilevel)
        dx == CutDelta(g, ilevel, xoff)
        dtop == CutTop(g, ilevel, dx)
        blank == MeshvarBnd(g.nbnd, n, dtop)
        copied == [blank EXCEPT !.data =
                     [c \in DOMAIN blank.data |->
                        IF c \in Logical(n) THEN At(old, Shift3(c, dx)) ELSE Indet]]
        finesum == RSum(copied.data, Logical(n))
        finecount == n[1] * n[2] * n[3]
        hasTop == ilevel > levelmin(g)
        coarse == IF hasTop THEN grid(g, ilevel - 1) ELSE old
        foot == {Shift3(c, dtop) : c \in HalfBox(n)}
        reads == [c \in foot |-> At(coarse, c)]
        coarsecount == (n[1] \div 2) * (n[2] \div 2) * (n[3] \div 2)
        corr == RSub(Mean(RSum(reads, foot), coarsecount), Mean(finesum, finecount))
        mnew == IF hasTop /\ enforce_coarse_mean
                THEN [copied EXCEPT !.data =
                        [c \in DOMAIN copied.data |->
                           IF c \in Logical(n) THEN RAdd(copied.data[c], corr)
                           ELSE copied.data[c]]]
                ELSE copied
        cnew == IF hasTop /\ ~enforce_coarse_mean
                THEN [coarse EXCEPT !.data =
                        [c \in DOMAIN coarse.data |->
                           IF c \in foot THEN RSub(coarse.data[c], corr)
                           ELSE coarse.data[c]]]
                ELSE coarse
        g1 == [g EXCEPT
                 !.pgrids = [i \in DOMAIN g.pgrids |->
                    IF i = ilevel + 1 THEN mnew
                    ELSE IF i = ilevel /\ hasTop THEN cnew
                    ELSE IF i = ilevel + 2
                         THEN [g.pgrids[i] EXCEPT !.off =
                                 [d \in Dims |-> Sub32(g.pgrids[i].off[d], dx[d])]]
                         ELSE g.pgrids[i]],
                 !.offabs[ilevel + 1] = [d \in Dims |-> Add32(g.offabs[ilevel + 1][d], dx[d])]]
    IN  find_new_levelmin(g1)

\* the assertion of cut_patch: every component of the delta is even
CutAssert(g, ilevel, xoff) ==
    \A d \in Dims : CutDelta(g, ilevel, xoff)[d] % 2 = 0

\* GridHierarchy(const GridHierarchy&): the masks are copied only when
\* bhave_refmask is set; the source is not empty
CopyOf(g) ==
    [g EXCEPT !.ref_masks = IF g.bhave_refmask THEN g.ref_masks ELSE <<>>]

\* is_consistent(gh): the levels levelmin()..levelmax() are compared
is_consistent(g, o) ==
    /\ levelmax(o) = levelmax(g)
    /\ levelmin(o) = levelmin(g)
    /\ \A i \in levelmin(g)..levelmax(g) : \A j \in Dims :
          size(g, i, j) = size(o, i, j) /\ offset(g, i, j) = offset(o, i, j)

RECURSIVE ApplyLevels(_, _, _, _)
\* the loop of operator op= over the levels i.. : Meshvar's operator throws on
\* arrays of different element counts, after the levels before it were changed
ApplyLevels(op, g, o, i) ==
    IF i >= Len(g.pgrids) THEN [error |-> "none", g |-> g]
    ELSE IF ~MeshCompatible(grid(g, i), grid(o, i))
    THEN [error |-> "Meshvar: attempt to operate on incompatible data", g |-> g]
    ELSE ApplyLevels(op, [g EXCEPT !.pgrids[i + 1] = MeshApply(op, grid(g, i), grid(o, i))],
                     o, i + 1)

\* GridHierarchy::operator+=, -=, *=, /= (const GridHierarchy&): the left
\* operand afterwards and the error thrown, if any
HierOp(op, g, o) ==
    IF ~is_consistent(g, o)
    THEN [error |-> "GridHierarchy: attempt to operate on incompatible data", g |-> g]
    ELSE ApplyLevels(op, g, o, 0)

-----------------------------------------------------------------------------
(* The refinement mask of GridHierarchy.  Mask values: -1 outside the mask,  *)
(* 2 in the mask and refined, 1 in the mask and not refined.  The answers   *)
(* of the_region_generator->query_point are an input: Q is the set of pairs *)
(* <<level, block>> whose query point the region contains, a block being    *)
(* named by its first cell.  Extents are even here, so the eight writes of  *)
(* a block stay inside the mask.                                            *)

\* the cell at position f of refinement_mask::mask_ (1-based)
MaskCell(n, f) ==
    <<(f - 1) \div (n[2] * n[3]), ((f - 1) \div n[3]) % n[2], (f - 1) % n[3]>>

\* the first cell of the 2x2x2 block a cell is written with
BlockOf(c) == [d \in Dims |-> c[d] - (c[d] % 2)]

\* the blocks the first loop visits on level L: i, j, k in steps of 2
Blocks(g, L) == {BlockOf(c) : c \in Logical(grid(g, L).n)}

\* the levels whose query answer decides the mask value
QueryLevels(g) == (levelmin(g) + 1)..levelmax(g)

QueryBlocks(g) == UNION {{<<L, b>> : b \in Blocks(g, L)} : L \in QueryLevels(g)}

\* (mutant: query_point is not asked)
MaskVal_levelmin_only(g, Q, L, b) == IF L = levelmin(g) THEN 1 ELSE -1

\* mask_val of a block: 1 when query_point holds or the level is levelmin()
MaskVal(g, Q, L, b) == IF <<L, b>> \in Q \/ L = levelmin(g) THEN 1 ELSE -1

\* the first loop on level L: init(size, 0), then every block is written
FlagLevel(g, Q, L) ==
    LET n == grid(g, L).n
    IN  [n |-> n,
         mask |-> [f \in 1..(n[1] * n[2] * n[3]) |->
                      MaskVal(g, Q, L, BlockOf(MaskCell(n, f)))]]

\* the first loop over the levels levelmax() down to levelmin()
FlagLevels(g, Q) ==
    [g EXCEPT !.ref_masks =
        [i \in 1..Len(@) |->
            IF i - 1 >= levelmin(g) /\ i - 1 <= levelmax(g)
            THEN FlagLevel(g, Q, i - 1) ELSE @[i]],
              !.bhave_refmask = TRUE]

\* ifine of the coarse cell c of level L
IFine(g, L, c) == [d \in Dims |-> 2 * c[d] - 2 * offset(g, L + 1, d)]

\* the test on ifine: the first child lies in the finer grid
FineInside(g, L, f) == \A d \in Dims : f[d] >= 0 /\ f[d] < size(g, L + 1, d)

\* the eight children of a coarse cell, from its ifine
Children(f) == {<<f[1] + a, f[2] + b, f[3] + e>> : a \in 0..1, b \in 0..1, e \in 0..1}

\* fine_is_flagged of the coarse cell c of level L
FineIsFlagged(g, L, c) ==
    /\ FineInside(g, L, IFine(g, L, c))
    /\ \E x \in Children(IFine(g, L, c)) : MaskAt(g.ref_masks[L + 2], x) > 0

\* the cells of level L the second loop marks as refined
Flagged(g, L) == {c \in Logical(grid(g, L).n) : FineIsFlagged(g, L, c)}

\* the second loop on level L: the flagged cells F become 2 and their
\* children 1; the children of different cells are disjoint
MarkRefined(g, L, F) ==
    [g EXCEPT
       !.ref_masks[L + 1].mask =
           [f \in DOMAIN @ |->
               IF MaskCell(g.ref_masks[L + 1].n, f) \in F THEN 2 ELSE @[f]],
       !.ref_masks[L + 2].mask =
           [f \in DOMAIN @ |->
               IF \E c \in F :
                     MaskCell(g.ref_masks[L + 2].n, f) \in Children(IFine(g, L, c))
               THEN 1 ELSE @[f]]]

RECURSIVE RefineLevels(_, _)
\* the second loop over the levels ilevel .. levelmax() - 1, ascending
RefineLevels(g, ilevel) ==
    IF ilevel >= levelmax(g) THEN g
    ELSE RefineLevels(MarkRefined(g, ilevel, Flagged(g, ilevel)), ilevel + 1)

\* add_refinement_mask(shift) under the query answers Q
add_refinement_mask(g, Q) ==
    IF levelmin(g) # levelmax(g)
    THEN RefineLevels(FlagLevels(g, Q), levelmin(g))
    ELSE [g EXCEPT !.bhave_refmask = FALSE]

\* (mutant: the footprint of the finer level is taken at its full extent)
is_refined_full_extent(g, ilevel, c) ==
    IF g.bhave_refmask THEN MaskAt(g.ref_masks[ilevel + 1], c) = 2
    ELSE IF ilevel = levelmax(g) THEN FALSE
    ELSE ~ \E d \in Dims :
              \/ c[d] < offset(g, ilevel + 1, d)
              \/ c[d] >= offset(g, ilevel + 1, d) + size(g, ilevel + 1, d)

\* is_refined(ilevel, i, j, k)
is_refined(g, ilevel, c) ==
    IF g.bhave_refmask THEN MaskAt(g.ref_masks[ilevel + 1], c) = 2
    ELSE IF ilevel = levelmax(g) THEN FALSE
    ELSE ~ \E d \in Dims :
              \/ c[d] < offset(g, ilevel + 1, d)
              \/ c[d] >= offset(g, ilevel + 1, d) + CDiv(size(g, ilevel + 1, d), 2)

\* is_in_mask(ilevel, i, j, k)
is_in_mask(g, ilevel, c) ==
    IF g.bhave_refmask THEN MaskAt(g.ref_masks[ilevel + 1], c) >= 0 ELSE TRUE

\* count_leaf_cells(lmin, lmax)
count_leaf_cells(g, lmin, lmax) ==
    Cardinality(UNION {{<<L, c>> : c \in {x \in Logical(grid(g, L).n) :
                                             is_in_mask(g, L, x) /\ ~is_refined(g, L, x)}} :
                       L \in lmin..lmax})

-----------------------------------------------------------------------------
(* refinement_hierarchy: the level geometry resolver.                       *)
(* A configuration c holds the values the constructor reads: levelmin,      *)
(* levelmax, align_top, preserve_dims, equal_extent, blocking_factor,       *)
(* gridding_unit, padding, bhave_nref and lnref (forced dimensions), sgn    *)
(* (the sign of the domain shift, per dimension), and lo, hi: the corners   *)
(* il, jl, kl and ir, jr, kr of the region on the finest grid, as the       *)
(* constructor truncates them from the region generator's bounding box.     *)

\* (int)((double)a / b) for b > 0
TruncDiv(a, b) == CDiv(a, b)

\* blocking_factor_ after the constructor has reconciled it with gridding_unit_
EffBlocking(c) ==
    IF c.gridding_unit # 2 /\ c.blocking_factor = 0 THEN c.gridding_unit
    ELSE c.blocking_factor

IncompatibleUnits(c) ==
    c.gridding_unit # 2 /\ c.blocking_factor # 0 /\ c.gridding_unit # c.blocking_factor

\* round the right corner r up to the unsigned unit u (r is never negative here)
RoundUpU(r, u) == IF UMod(r, u) # 0 THEN ((r \div u) + 1) * u ELSE r

\* align one dimension's corners <<l, r>>; nref is the top-grid unit of the
\* level, always says whether the right corner moves even when aligned
AlignDim(c, lr, d, nref, always) ==
    LET l == lr[1]
        r == lr[2]
    IN  IF c.align_top
        THEN <<TruncDiv(l, nref) * nref,
               IF always \/ TruncDiv(r, nref) * nref < r
               THEN TruncDiv(r + nref, nref) * nref
               ELSE TruncDiv(r, nref) * nref>>
        ELSE IF c.preserve_dims
        THEN <<l + c.sgn[d] * CRem(l, 2), r + c.sgn[d] * CRem(r, 2)>>
        ELSE <<Sub32(l, UMod(l, c.gridding_unit)), RoundUpU(r, c.gridding_unit)>>

\* alignment with the coarser block: coarse_block = 2 * blocking_factor_
BlockDim(c, lr, nres) ==
    LET cb == 2 * EffBlocking(c)
    IN  IF EffBlocking(c) # 0
        THEN <<Sub32(lr[1], UMod(lr[1], cb)), Add32(lr[2], UMod(nres - lr[2], cb))>>
        ELSE lr

\* forced equal extent: every dimension gets the largest extent, centred
EqualExtent(abs, len) ==
    LET nmax == Max3(len)
    IN  [abs |-> [d \in Dims |-> abs[d] - TruncDiv(nmax - len[d], 2)],
         len |-> Cube(nmax)]

BoxError1 == "refinement_hierarchy: Internal refinement bounding box error 1"
BoxError2 == "refinement_hierarchy: Internal refinement bounding box error 2"
HalfBoxError == "Fatal: Subgrid larger than half boxin zoom."
UnitsError == "Incompatible gridding unit and blocking factor!"
AlignTopError == "specified ref_dims and align_top=yes but cannot be aligned with coarse grid!"
EqualExtentError == "Specified equal_extent=yes conflicting with ref_dims which are not equal."

\* forced dimensions: the right corner is the left one plus lnref_
ForcedDim(c, d, lr) == IF c.bhave_nref THEN <<lr[1], lr[1] + c.lnref[d]>> ELSE lr

\* make sure the bounding box lies in the domain of n cells
WrapDim(lr, n) == <<CRem(lr[1] + n, n), CRem(lr[2] + n, n)>>

\* the finest level: corners aligned, blocked, forced, wrapped into the domain
FinestCorners(c) ==
    [d \in Dims |->
        WrapDim(ForcedDim(c, d,
                    BlockDim(c, AlignDim(c, <<c.lo[d], c.hi[d]>>, d,
                                         Pow2(c.levelmax - c.levelmin + 1), FALSE),
                             Pow2(c.levelmax))),
                Pow2(c.levelmax))]

\* corners <<il, ir>> of a level from its absolute offset and extent
BoxOf(e) == [d \in Dims |-> <<e.abs[d], e.abs[d] + e.len[d]>>]

\* absolute offset, extent and corners a level ends with
LevelOf(eq, abs, len, box) ==
    IF eq
    THEN [abs |-> EqualExtent(abs, len).abs, len |-> EqualExtent(abs, len).len,
          box |-> BoxOf(EqualExtent(abs, len))]
    ELSE [abs |-> abs, len |-> len, box |-> box]

\* the finest level from its wrapped corners w
FinestLevel(c, w) ==
    LevelOf(c.equal_extent,
            [d \in Dims |-> CRem(w[d][1] + Pow2(c.levelmax), Pow2(c.levelmax))],
            [d \in Dims |-> w[d][2] - w[d][1]], w)

\* (int)((double)il * 0.5 - padding_), (int)((double)ir * 0.5 + padding_)
HalveDim(c, lr) ==
    <<TruncDiv(lr[1] - 2 * c.padding, 2), TruncDiv(lr[2] + 2 * c.padding, 2)>>

\* len_ += len_ % blocking_factor_
BlockLen(c, len) ==
    IF EffBlocking(c) # 0
    THEN [d \in Dims |-> len[d] + (len[d] % EffBlocking(c))]
    ELSE len

\* a coarser level from its aligned corners a
CoarseOf(c, a) ==
    [bad |-> \E d \in Dims : a[d][1] >= a[d][2] \/ a[d][1] < 0,
     lvl |-> LevelOf(c.equal_extent, [d \in Dims |-> a[d][1]],
                     BlockLen(c, [d \in Dims |-> a[d][2] - a[d][1]]), a)]

\* one step of the walk to the coarser level ilevel, from the finer corners
CoarserLevel(c, box, ilevel) ==
    CoarseOf(c, [d \in Dims |->
                    BlockDim(c, AlignDim(c, HalveDim(c, box[d]), d,
                                         Pow2(ilevel - c.levelmin), TRUE),
                             Pow2(ilevel))])

RECURSIVE Walk(_, _, _, _)
RECURSIVE WalkOn(_, _, _, _)
\* the walk from level ilevel down to levelmin + 1; lev maps the levels done
\* so far to their absolute offset and extent
Walk(c, box, ilevel, lev) ==
    IF ilevel <= c.levelmin THEN [bad |-> FALSE, lev |-> lev]
    ELSE WalkOn(c, ilevel, lev, CoarserLevel(c, box, ilevel))

\* the walk goes on from the level s just computed, or stops at its error
WalkOn(c, ilevel, lev, s) ==
    IF s.bad THEN [bad |-> TRUE, lev |-> lev]
    ELSE Walk(c, s.lvl.box, ilevel - 1,
              [L \in DOMAIN lev \cup {ilevel} |-> IF L = ilevel THEN s.lvl ELSE lev[L]])

RECURSIVE Sweep(_, _, _, _)
\* the forward sweep: abs[L] = 2 * abs[L-1] + 2 * offsets[L] for L = from..to
Sweep(abs, offs, from, to) ==
    IF from > to THEN abs
    ELSE Sweep([abs EXCEPT ![from + 1] =
                   [d \in Dims |-> 2 * abs[from][d] + 2 * offs[from + 1][d]]],
               offs, from + 1, to)

\* what every constructed record holds for the levels 0..levelmin
BaseRecord(c) ==
    [levelmin_ |-> c.levelmin, levelmax_ |-> c.levelmax,
     offsets_ |-> [i \in 1..(c.levelmax + 1) |-> Zero3],
     absoffsets_ |-> [i \in 1..(c.levelmax + 1) |-> Zero3],
     len_ |-> [i \in 1..(c.levelmax + 1) |->
                 IF i - 1 <= c.levelmin THEN Cube(Pow2(i - 1)) ELSE Zero3]]

\* relative offsets between grids: abs[L] / 2 - abs[L-1]
RelOffsets(c, abs) ==
    [i \in 1..(c.levelmax + 1) |->
        IF c.levelmin < i - 1
        THEN [d \in Dims |-> CDiv(abs[i][d], 2) - abs[i - 1][d]]
        ELSE Zero3]

\* (mutant: a subgrid is refused only when it is larger than the whole box)
Assemble_whole_box(c, abs, offs, len) ==
    IF \E L \in (c.levelmin + 1)..c.levelmax : \E d \in Dims : len[L + 1][d] > Pow2(L)
    THEN [error |-> HalfBoxError]
    ELSE [levelmin_ |-> c.levelmin, levelmax_ |-> c.levelmax,
          offsets_ |-> offs,
          absoffsets_ |-> Sweep(abs, offs, c.levelmin + 1, c.levelmax),
          len_ |-> len]

\* the record from the absolute offsets the walk left, the relative offsets
\* and the extents: forward sweep, then the half-box check
Assemble(c, abs, offs, len) ==
    IF \E L \in (c.levelmin + 1)..c.levelmax : \E d \in Dims : len[L + 1][d] > Pow2(L - 1)
    THEN [error |-> HalfBoxError]
    ELSE [levelmin_ |-> c.levelmin, levelmax_ |-> c.levelmax,
          offsets_ |-> offs,
          absoffsets_ |-> Sweep(abs, offs, c.levelmin + 1, c.levelmax),
          len_ |-> len]

\* absolute offsets of all levels as the walk left them
WalkAbs(c, lev) ==
    [i \in 1..(c.levelmax + 1) |-> IF c.levelmin < i - 1 THEN lev[i - 1].abs ELSE Zero3]

\* the constructor past the walk w
Walked(c, w) ==
    IF w.bad THEN [error |-> BoxError2]
    ELSE Assemble(c, WalkAbs(c, w.lev), RelOffsets(c, WalkAbs(c, w.lev)),
                  [i \in 1..(c.levelmax + 1) |->
                      IF c.levelmin < i - 1 THEN w.lev[i - 1].len
                      ELSE BaseRecord(c).len_[i]])

\* the constructor from the finest level f on
FromFinest(c, f) ==
    Walked(c, Walk(c, f.box, c.levelmax - 1,
                   [L \in {c.levelmax} |-> [abs |-> f.abs, len |-> f.len, box |-> f.box]]))

\* the constructor from the wrapped finest corners w on
FromCorners(c, w) ==
    IF \E d \in Dims : w[d][1] >= w[d][2]
    THEN [error |-> BoxError1]
    ELSE IF c.equal_extent /\ c.bhave_nref
            /\ (c.lnref[1] # c.lnref[2] \/ c.lnref[1] # c.lnref[3])
    THEN [error |-> EqualExtentError]
    ELSE FromFinest(c, FinestLevel(c, w))

\* refinement_hierarchy(config_file&): the record, or the error it throws
refinement_hierarchy(c) ==
    IF IncompatibleUnits(c) THEN [error |-> UnitsError]
    ELSE IF c.levelmax = c.levelmin THEN BaseRecord(c)
    ELSE IF c.align_top /\ c.bhave_nref
            /\ \E d \in Dims : c.lnref[d] % Pow2(c.levelmax - c.levelmin) # 0
    THEN [error |-> AlignTopError]
    ELSE FromCorners(c, FinestCorners(c))

\* find_new_levelmin() of refinement_hierarchy: origin and extent are compared
rh_find_new_levelmin(r) ==
    LET full == {i \in 0..r.levelmax_ :
                    r.absoffsets_[i + 1] = Zero3 /\ r.len_[i + 1] = Cube(Pow2(i))}
    IN  IF full = {} THEN r
        ELSE [r EXCEPT !.levelmin_ = CHOOSE i \in full : \A j \in full : j <= i]

\* adjust_level without the compensation on the next finer level
adjust_level_no_propagate(r, ilevel, n, oa) ==
    LET dx == [d \in Dims |-> r.absoffsets_[ilevel + 1][d] - oa[d]]
    IN  rh_find_new_levelmin(
            [r EXCEPT !.offsets_[ilevel + 1] =
                          [d \in Dims |-> r.offsets_[ilevel + 1][d] - CDiv(dx[d], 2)],
                      !.absoffsets_[ilevel + 1] = oa,
                      !.len_[ilevel + 1] = n])

\* adjust_level(ilevel, nx, ny, nz, oax, oay, oaz); level ilevel exists
adjust_level(r, ilevel, n, oa) ==
    LET dx == [d \in Dims |-> r.absoffsets_[ilevel + 1][d] - oa[d]]
        r1 == [r EXCEPT
                 !.offsets_ = [i \in DOMAIN r.offsets_ |->
                     IF i = ilevel + 1
                     THEN [d \in Dims |-> r.offsets_[i][d] - CDiv(dx[d], 2)]
                     ELSE IF i = ilevel + 2
                     THEN [d \in Dims |-> r.offsets_[i][d] + dx[d]]
                     ELSE r.offsets_[i]],
                 !.absoffsets_[ilevel + 1] = oa,
                 !.len_[ilevel + 1] = n]
    IN  rh_find_new_levelmin(r1)

rh_offset_abs(r, L, d) == r.absoffsets_[L + 1][d]
rh_offset(r, L, d) == r.offsets_[L + 1][d]
rh_size(r, L, d) == r.len_[L + 1][d]

-----------------------------------------------------------------------------
(* Bounds and input sets of the grid-store specification *)

Nbnd == 1          \* ghost cells per face, the constructor's argument
MaxBase == 1       \* largest lmax passed to create_base_hierarchy
MaxLevel == 2      \* largest level a hierarchy grows to
MaxOps == 3        \* longest sequence of mutating operations explored

PatchOffsets == {<<0, 0, 0>>, <<1, 0, 1>>}
PatchExtents == {<<2, 2, 2>>, <<2, 4, 2>>}
CutOffsets == {<<0, 0, 0>>, <<2, 0, 2>>, <<1, 0, 0>>}
CutExtents == {<<2, 2, 2>>, <<1, 2, 2>>}

NoRefh == [none |-> TRUE]
NoRet == [op |-> "none"]
NoWork == [none |-> TRUE]

\* the field a working grid holds when it is copied into a level
\* (DensityGrid::copy, PaddedDensitySubGrid::copy_unpad): any values at all;
\* here one pattern that tells neighbouring cells apart
Field(c) == RInt(1 + ((c[1] + 2 * c[2] + 3 * c[3]) % 3))

\* top->copy(*delta.get_grid(L)), fine->copy_unpad(*delta.get_grid(L)):
\* the logical cells of level L are overwritten
copy_into(g, L) ==
    [g EXCEPT !.pgrids[L + 1].data =
        [c \in DOMAIN @ |-> IF c \in Logical(grid(g, L).n) THEN Field(c) ELSE @[c]]]

-----------------------------------------------------------------------------
(* The grid store under its own operations *)

InitGH ==
    /\ gh = GridHierarchy(Nbnd)
    /\ other = GridHierarchy(Nbnd)
    /\ refh = NoRefh
    /\ cf \in [ndebug : BOOLEAN]
    /\ ret = NoRet
    /\ pc = "run"
    /\ nops = 0
    /\ wk = NoWork

\* a mutating operation is applied while the sequence is short of MaxOps
Step == pc = "run" /\ nops < MaxOps /\ nops' = nops + 1

CreateBase ==
    /\ Step
    /\ \E lmax \in 0..MaxBase :
          /\ gh' = create_base_hierarchy(gh, lmax)
          /\ ret' = [op |-> "create_base_hierarchy", lmax |-> lmax,
                     before |-> Len(gh.pgrids)]
    /\ UNCHANGED <<other, refh, cf, wk, pc>>

AddPatch ==
    /\ Step
    /\ Len(gh.pgrids) > 0
    /\ levelmax(gh) < MaxLevel
    /\ \E off \in PatchOffsets, n \in PatchExtents :
          /\ gh' = add_patch(gh, off, n)
          /\ ret' = [op |-> "add_patch", off |-> off, n |-> n]
    /\ UNCHANGED <<other, refh, cf, wk, pc>>

\* cut_patch with the assertion: a failed assertion aborts the program unless
\* the build defines NDEBUG
CutPatch ==
    /\ Step
    /\ \E ilevel \in Levels(gh), xoff \in CutOffsets, n \in CutExtents, e \in BOOLEAN :
          IF CutAssert(gh, ilevel, xoff) \/ cf.ndebug
          THEN /\ gh' = cut_patch(gh, ilevel, xoff, n, e)
               /\ ret' = [op |-> "cut_patch", ilevel |-> ilevel, xoff |-> xoff, n |-> n,
                          dx |-> [d \in Dims |-> xoff[d] - offset_abs(gh, ilevel, d)]]
               /\ pc' = pc
          ELSE /\ gh' = gh
               /\ ret' = [op |-> "cut_patch", abort |-> "assertion failed"]
               /\ pc' = "aborted"
    /\ UNCHANGED <<other, refh, cf, wk>>

CopyInto ==
    /\ Step
    /\ Len(gh.pgrids) > 0
    /\ gh' = copy_into(gh, levelmax(gh))
    /\ ret' = [op |-> "copy", level |-> levelmax(gh)]
    /\ UNCHANGED <<other, refh, cf, wk, pc>>

GetGrid ==
    /\ pc = "run"
    /\ \E ilevel \in 0..(MaxLevel + 1) :
          ret' = [op |-> "get_grid", ilevel |-> ilevel, result |-> get_grid(gh, ilevel)]
    /\ UNCHANGED <<gh, other, refh, cf, wk, pc, nops>>

Deallocate ==
    /\ Step
    /\ gh' = deallocate(gh)
    /\ ret' = [op |-> "deallocate"]
    /\ UNCHANGED <<other, refh, cf, wk, pc>>

NextGH == CreateBase \/ AddPatch \/ CutPatch \/ CopyInto \/ GetGrid \/ Deallocate

SpecGH == InitGH /\ [][NextGH]_vars

-----------------------------------------------------------------------------
(* The geometry resolver on its own: construction from a configuration,     *)
(* then adjust_level calls.                                                  *)

RhLevelMax == 3    \* deepest levelmax of the configurations explored
MaxAdjust == 2     \* longest sequence of adjust_level calls explored

\* corners of the region on the finest grid of n cells per dimension
RegionLo(n) == {Cube(n \div 2 - 1), <<n \div 2 - 2, n \div 2, 1>>}
RegionExtents == {<<2, 2, 2>>, <<3, 1, 2>>}

Modes == {"align_top", "preserve_dims", "gridding"}

\* the configurations of one pair of levels: each field is what the
\* constructor reads; the shift sign matters to preserve_dims only
RhConfigsAt(lmin, lmax) ==
    {[levelmin |-> lmin, levelmax |-> lmax, levelmin_TF |-> lmin,
      align_top |-> (m = "align_top"), preserve_dims |-> (m = "preserve_dims"),
      equal_extent |-> eq, blocking_factor |-> bf, gridding_unit |-> gu,
      padding |-> pad, bhave_nref |-> nr[1], lnref |-> nr[2],
      sgn |-> IF m = "preserve_dims" THEN sg ELSE <<1, 1, 1>>,
      lo |-> lo, hi |-> [d \in Dims |-> lo[d] + ext[d]], ndebug |-> FALSE] :
        m \in Modes, eq \in BOOLEAN,
        bf \in {0, 2, 3}, gu \in {2, 4}, pad \in 0..1,
        nr \in {<<FALSE, Zero3>>, <<TRUE, <<2, 2, 2>>>>, <<TRUE, <<2, 4, 2>>>>},
        sg \in {<<1, 1, 1>>, <<-1, 1, -1>>},
        lo \in RegionLo(Pow2(lmax)), ext \in RegionExtents}

RhConfigs ==
    UNION {RhConfigsAt(lm[1], lm[2]) :
              lm \in {x \in (1..2) \X (2..RhLevelMax) : x[1] < x[2]}}

\* arguments of adjust_level: <<new extent, new absolute offset>>
AdjustInputs == {<<Cube(2), Zero3>>, <<Cube(4), Zero3>>,
                 <<Cube(2), <<-2, 2, 0>>>>, <<<<2, 4, 2>>, <<1, 0, 4>>>>}

IsBuilt(r) == "levelmin_" \in DOMAIN r

\* the new absolute offset differs from the current one by an even amount
EvenDelta(r, ilevel, oa) ==
    \A d \in Dims : (r.absoffsets_[ilevel + 1][d] - oa[d]) % 2 = 0

InitRH ==
    /\ gh = GridHierarchy(Nbnd)
    /\ other = GridHierarchy(Nbnd)
    /\ refh = NoRefh
    /\ cf \in RhConfigs
    /\ ret = NoRet
    /\ pc = "construct"
    /\ nops = 0
    /\ wk = NoWork

\* the constructor returns the record
Construct ==
    /\ pc = "construct"
    /\ ~("error" \in DOMAIN refinement_hierarchy(cf))
    /\ refh' = refinement_hierarchy(cf)
    /\ ret' = [op |-> "refinement_hierarchy", evenDeltas |-> TRUE]
    /\ pc' = "run"
    /\ UNCHANGED <<gh, other, cf, wk, nops>>

\* the constructor throws: no record exists
ConstructFails ==
    /\ pc = "construct"
    /\ "error" \in DOMAIN refinement_hierarchy(cf)
    /\ ret' = [op |-> "refinement_hierarchy", error |-> refinement_hierarchy(cf).error]
    /\ pc' = "failed"
    /\ UNCHANGED <<gh, other, refh, cf, wk, nops>>

AdjustLevel ==
    /\ pc = "run"
    /\ nops < MaxAdjust
    /\ \E ilevel \in 0..refh.levelmax_, a \in AdjustInputs :
          /\ refh' = adjust_level(refh, ilevel, a[1], a[2])
          /\ ret' = [op |-> "adjust_level", ilevel |-> ilevel, n |-> a[1], oa |-> a[2],
                     evenDeltas |-> ret.evenDeltas /\ EvenDelta(refh, ilevel, a[2])]
    /\ nops' = nops + 1
    /\ UNCHANGED <<gh, other, cf, wk, pc>>

NextRH == Construct \/ ConstructFails \/ AdjustLevel

SpecRH == InitRH /\ [][NextRH]_vars

\* the same operations on a deeper pair of levels, where a level can hold
\* several blocks
DeepMin == 3       \* setup/levelmin of the deeper configurations
DeepMax == 4       \* setup/levelmax of the deeper configurations

\* the deeper configurations, and each of them with odd forced ref_dims
DeepConfigs ==
    RhConfigsAt(DeepMin, DeepMax)
        \cup {[c EXCEPT !.bhave_nref = TRUE, !.lnref = <<3, 3, 3>>] :
                 c \in {x \in RhConfigsAt(DeepMin, DeepMax) : ~x.bhave_nref}}

InitDeep ==
    /\ gh = GridHierarchy(Nbnd)
    /\ other = GridHierarchy(Nbnd)
    /\ refh = NoRefh
    /\ cf \in DeepConfigs
    /\ ret = NoRet
    /\ pc = "construct"
    /\ nops = 0
    /\ wk = NoWork

SpecDeep == InitDeep /\ [][NextRH]_vars

-----------------------------------------------------------------------------
(* Start of the pipeline: the region generator is selected and created,   *)
(* then the refinement_hierarchy is constructed from it (SpecSetup)        *)

\* the region generators registered by the sources at hand
Registered == {"box"}

RegionNames == {"box", "sphere"}

\* the keys of section [setup] that describe the box region
RegionKeys == {"ref_offset", "ref_center", "ref_extent", "ref_dims"}

UnknownPluginError == "Unknown region generator plug-in"
NoOriginError == "Found levelmin!=levelmax but neither ref_offset nor ref_center was specified."
NoExtentError == "Found levelmin!=levelmax but neither ref_extent nor ref_dims was specified."

\* region_box_plugin(config_file&): the generator, or the error it throws;
\* ref_extent is looked up before ref_dims; without refinement levels no
\* region key is read and the forced dimensions are never asked for
region_box_plugin(c) ==
    IF c.levelmin # c.levelmax
          /\ "ref_offset" \notin c.keys /\ "ref_center" \notin c.keys
    THEN [error |-> NoOriginError]
    ELSE IF c.levelmin # c.levelmax
          /\ "ref_extent" \notin c.keys /\ "ref_dims" \notin c.keys
    THEN [error |-> NoExtentError]
    ELSE [lo |-> IF c.levelmin # c.levelmax THEN c.lo ELSE Zero3,
          hi |-> IF c.levelmin # c.levelmax THEN c.hi ELSE Cube(Pow2(c.levelmax)),
          bhave_nref_ |-> /\ c.levelmin # c.levelmax
                          /\ "ref_extent" \notin c.keys /\ "ref_dims" \in c.keys,
          lnref_ |-> c.lnref,
          updated |-> FALSE]

\* (mutant: a generator is created for any name)
select_region_generator_plugin_any(c) == region_box_plugin(c)

\* select_region_generator_plugin(cf): the creator registered under the
\* name creates the generator
select_region_generator_plugin(c) ==
    IF c.region \notin Registered THEN [error |-> UnknownPluginError]
    ELSE region_box_plugin(c)

\* what the constructor reads: the configuration, with the box and the
\* forced dimensions the generator g answers
SetupView(c, g) ==
    [c EXCEPT !.bhave_nref = g.bhave_nref_,
              !.lnref = IF g.bhave_nref_ THEN g.lnref_ ELSE Zero3,
              !.lo = g.lo, !.hi = g.hi]

\* update_AABB(left, right) with the finest level of the record r
update_AABB(g, r) ==
    [g EXCEPT !.lo = r.absoffsets_[r.levelmax_ + 1],
              !.hi = [d \in Dims |-> r.absoffsets_[r.levelmax_ + 1][d]
                                     + r.len_[r.levelmax_ + 1][d]],
              !.updated = TRUE]

\* forced dimensions and region keys agree: ref_dims carries the numbers
SetupConfigs ==
    {c @@ [region |-> n, keys |-> k] :
        c \in RhConfigsAt(1, RhLevelMax) \cup RhConfigsAt(2, 2),
        n \in RegionNames,
        k \in SUBSET RegionKeys}

InitSetup ==
    /\ gh = GridHierarchy(Nbnd)
    /\ other = GridHierarchy(Nbnd)
    /\ refh = NoRefh
    /\ cf \in {c \in SetupConfigs : c.bhave_nref <=> "ref_dims" \in c.keys}
    /\ ret = NoRet
    /\ pc = "select"
    /\ nops = 0
    /\ wk = NoWork

SelectRegion ==
    /\ pc = "select"
    /\ ~("error" \in DOMAIN select_region_generator_plugin(cf))
    /\ wk' = select_region_generator_plugin(cf)
    /\ ret' = [op |-> "select_region_generator_plugin"]
    /\ pc' = "construct"
    /\ UNCHANGED <<gh, other, refh, cf, nops>>

SelectRegionFails ==
    /\ pc = "select"
    /\ "error" \in DOMAIN select_region_generator_plugin(cf)
    /\ ret' = [op |-> "select_region_generator_plugin",
               error |-> select_region_generator_plugin(cf).error]
    /\ pc' = "failed"
    /\ UNCHANGED <<gh, other, refh, cf, wk, nops>>

\* the constructor returns: the record exists and the generator is updated
BuildHierarchy ==
    /\ pc = "construct"
    /\ ~("error" \in DOMAIN refinement_hierarchy(SetupView(cf, wk)))
    /\ refh' = refinement_hierarchy(SetupView(cf, wk))
    /\ wk' = update_AABB(wk, refh')
    /\ ret' = [op |-> "refinement_hierarchy"]
    /\ pc' = "built"
    /\ UNCHANGED <<gh, other, cf, nops>>

\* the constructor throws: no record exists, the generator is as it was
BuildHierarchyFails ==
    /\ pc = "construct"
    /\ "error" \in DOMAIN refinement_hierarchy(SetupView(cf, wk))
    /\ ret' = [op |-> "refinement_hierarchy",
               error |-> refinement_hierarchy(SetupView(cf, wk)).error]
    /\ pc' = "failed"
    /\ UNCHANGED <<gh, other, refh, cf, wk, nops>>

NextSetup == SelectRegion \/ SelectRegionFails \/ BuildHierarchy \/ BuildHierarchyFails

SpecSetup == InitSetup /\ [][NextSetup]_vars

-----------------------------------------------------------------------------
(* The density pipeline: the geometry is resolved, GenerateDensityHierarchy *)
(* builds the grid store from it, then levels are cut in the store and      *)
(* adjusted in the geometry record with the same arguments.                 *)

MaxCuts == 1       \* longest sequence of cut_patch / adjust_level pairs explored

RECURSIVE AddPatches(_, _, _, _)
\* the loop of GenerateDensityHierarchy over the levels i..last: add_patch with
\* the record's relative offset and extent, then copy_unpad into the new grid
AddPatches(g, r, i, last) ==
    IF i > last THEN g
    ELSE AddPatches(copy_into(add_patch(g, r.offsets_[i + 1], r.len_[i + 1]), i),
                    r, i + 1, last)

\* GenerateDensityHierarchy: the base hierarchy down from levelmin_TF, the
\* convolved top grid copied in, then one patch per finer level
GenerateDensityHierarchy(c, r, g) ==
    AddPatches(copy_into(create_base_hierarchy(g, c.levelmin_TF), c.levelmin_TF),
               r, c.levelmin_TF + 1, c.levelmax)

\* the loops over ix, iy, iz that add up the logical cells of a grid
LogicalSum(m) ==
    RSum([ix \in 0..(m.n[1] - 1) |->
            RSum([iy \in 0..(m.n[2] - 1) |->
                    RSum([iz \in 0..(m.n[3] - 1) |-> m.data[<<ix, iy, iz>>]],
                         0..(m.n[3] - 1))],
                 0..(m.n[2] - 1))],
         0..(m.n[1] - 1))

\* sum over the logical cells of level L, divided by nx * ny * nz
LevelMean(g, L) ==
    Mean(LogicalSum(grid(g, L)), size(g, L, 1) * size(g, L, 2) * size(g, L, 3))

\* the loops "(*delta.get_grid(i))(ix, iy, iz) -= sum" over the levels lo..hi
SubtractOn(g, lo, hi, sum) ==
    [g EXCEPT !.pgrids =
        [i \in DOMAIN @ |->
            IF lo <= i - 1 /\ i - 1 <= hi
            THEN [@[i] EXCEPT !.data =
                    [c \in DOMAIN @ |->
                        IF c \in Logical(g.pgrids[i].n) THEN RSub(@[c], sum) ELSE @[c]]]
            ELSE @[i]]]

\* (mutant: the mean is taken on the finest level)
normalize_density_finest_mean(g) ==
    SubtractOn(g, levelmin(g), levelmax(g), LevelMean(g, levelmax(g)))

\* normalize_density(delta)
normalize_density(g) ==
    SubtractOn(g, levelmin(g), levelmax(g), LevelMean(g, levelmin(g)))

\* normalize_levelmin_density(delta)
normalize_levelmin_density(g) ==
    SubtractOn(g, levelmin(g), levelmin(g), LevelMean(g, levelmin(g)))

\* mg_straight().restrict(v, V) on the levels L and L - 1: every coarse cell
\* under the fine grid becomes the average of its eight fine cells
restrict(g, L) ==
    LET fine == grid(g, L)
        coarse == grid(g, L - 1)
        under == {<<c[1] + fine.off[1], c[2] + fine.off[2], c[3] + fine.off[3]>> :
                     c \in HalfBox(fine.n)}
        kids(x) == {<<2 * (x[1] - fine.off[1]) + a[1], 2 * (x[2] - fine.off[2]) + a[2],
                      2 * (x[3] - fine.off[3]) + a[3]>> : a \in Logical(Cube(2))}
    IN  [g EXCEPT !.pgrids[L] =
            [coarse EXCEPT !.data =
                [x \in DOMAIN coarse.data |->
                    IF x \in under
                    THEN Mean(RSum([k \in kids(x) |-> At(fine, k)], kids(x)), 8)
                    ELSE coarse.data[x]]]]

RECURSIVE RestrictFrom(_, _, _, _)
\* the loop "for (int i = levelmin_TF; i >= (int)rh.levelmin(); --i)" of the
\* non-spectral pass from its pass i on; get_grid(i - 1) raises its error
\* when i is 0
RestrictFrom(g, i, lo, log) ==
    IF i < lo THEN [g |-> g, log |-> log, abort |-> "none"]
    ELSE IF i = 0 THEN [g |-> g, log |-> log, abort |-> NonExistentGrid]
    ELSE RestrictFrom(restrict(g, i), i - 1, lo, Append(log, i))

\* the record and the store differ on the geometry of level i
Differs(r, g, i) ==
    \E d \in Dims : rh_offset(r, i, d) # offset(g, i, d) \/ rh_size(r, i, d) # size(g, i, d)

RECURSIVE CutToRecord(_, _, _, _)
\* the loop "for (unsigned i = 1; i <= rh.levelmax(); ++i)" from its pass i on
CutToRecord(r, g, i, ndebug) ==
    IF i > r.levelmax_ THEN [g |-> g, abort |-> "none"]
    ELSE IF i > levelmax(g) THEN [g |-> g, abort |-> NonExistentGrid]
    ELSE IF ~Differs(r, g, i) THEN CutToRecord(r, g, i + 1, ndebug)
    ELSE IF ~(CutAssert(g, i, r.absoffsets_[i + 1]) \/ ndebug)
         THEN [g |-> g, abort |-> "assertion failed"]
    ELSE CutToRecord(r, cut_patch(g, i, r.absoffsets_[i + 1], r.len_[i + 1], TRUE),
                     i + 1, ndebug)

\* coarsen_density(rh, u, false): the restrictions made, in order, and the
\* hierarchy left behind
coarsen_density(r, g, ndebug) ==
    IF levelmax(g) = 0 THEN [g |-> g, log |-> <<>>, abort |-> NonExistentGrid]
    ELSE LET down == RestrictFrom(restrict(g, levelmax(g)), levelmin(g), r.levelmin_,
                                  <<levelmax(g)>>)
             cut == CutToRecord(r, down.g, 1, ndebug)
         IN  IF down.abort # "none" THEN down
             ELSE IF cut.abort # "none"
                  THEN [g |-> cut.g, log |-> down.log, abort |-> cut.abort]
             ELSE [g |-> normalize_levelmin_density(cut.g), log |-> down.log,
                   abort |-> "none"]

\* configurations of the pipeline: levelmin_TF is levelmin unless set
PipeConfigs ==
    {[c EXCEPT !.levelmin_TF = tf] :
        c \in {x \in RhConfigs : x.gridding_unit = 2 /\ x.blocking_factor = 0},
        tf \in 1..(RhLevelMax - 1)}

\* how far a cut moves a level's absolute offset, and the extents it cuts to
CutShifts == {<<0, 0, 0>>, <<2, 0, 2>>, <<0, -2, 0>>, <<1, 0, 0>>}

InitPipe ==
    /\ gh = GridHierarchy(Nbnd)
    /\ other = GridHierarchy(Nbnd)
    /\ refh = NoRefh
    /\ cf \in {c \in PipeConfigs : c.levelmin_TF < c.levelmax
                                   /\ c.levelmin_TF \in {c.levelmin, c.levelmin + 1}}
    /\ ret = NoRet
    /\ pc = "construct"
    /\ nops = 0
    /\ wk = NoWork

GenerateDensity ==
    /\ pc = "run"
    /\ gh' = GenerateDensityHierarchy(cf, refh, gh)
    /\ ret' = [op |-> "GenerateDensityHierarchy"]
    /\ pc' = "generated"
    /\ UNCHANGED <<other, refh, cf, wk, nops>>

\* the geometry record and the grid store agree on every level
Agree(g, r) ==
    /\ levelmax(g) = r.levelmax_
    /\ \A L \in 0..r.levelmax_ : \A d \in Dims :
          /\ size(g, L, d) = rh_size(r, L, d)
          /\ offset(g, L, d) = rh_offset(r, L, d)
          /\ offset_abs(g, L, d) = rh_offset_abs(r, L, d)

\* the same change (level, new absolute offset, new extent) applied to both:
\* cut_patch on the store, adjust_level on the record; the new absolute offset
\* is not negative
CutAdjust ==
    /\ pc = "generated"
    /\ nops < MaxCuts
    /\ \E ilevel \in 1..levelmax(gh), sh \in CutShifts, n \in CutExtents, e \in BOOLEAN :
          LET oa == [d \in Dims |-> offset_abs(gh, ilevel, d) + sh[d]]
          IN  /\ \A d \in Dims : oa[d] >= 0
              /\ IF CutAssert(gh, ilevel, oa) \/ cf.ndebug
                 THEN /\ gh' = cut_patch(gh, ilevel, oa, n, e)
                      /\ refh' = adjust_level(refh, ilevel, n, oa)
                      /\ ret' = [op |-> "cut_adjust", ilevel |-> ilevel, oa |-> oa,
                                 n |-> n, agreed |-> Agree(gh, refh),
                                 xoff |-> oa, dx |-> sh,
                                 enforce_coarse_mean |-> e, before |-> gh]
                      /\ pc' = pc
                 ELSE /\ gh' = gh
                      /\ refh' = refh
                      /\ ret' = [op |-> "cut_patch", abort |-> "assertion failed"]
                      /\ pc' = "aborted"
    /\ nops' = nops + 1
    /\ UNCHANGED <<other, cf, wk>>

\* the mean is removed from the generated field, before any cut
NormalizeDensity ==
    /\ pc = "generated"
    /\ nops = 0
    /\ gh' = normalize_density(gh)
    /\ ret' = [op |-> "normalize_density", before |-> gh]
    /\ pc' = "normalized"
    /\ UNCHANGED <<other, refh, cf, wk, nops>>

NormalizeLevelminDensity ==
    /\ pc = "generated"
    /\ nops = 0
    /\ gh' = normalize_levelmin_density(gh)
    /\ ret' = [op |-> "normalize_levelmin_density", before |-> gh]
    /\ pc' = "normalized"
    /\ UNCHANGED <<other, refh, cf, wk, nops>>

\* the non-spectral restriction pass on the generated field
CoarsenDensity ==
    /\ pc = "generated"
    /\ nops = 0
    /\ LET out == coarsen_density(refh, gh, cf.ndebug)
       IN  /\ gh' = out.g
           /\ ret' = [op |-> "coarsen_density", restricted |-> out.log,
                      abort |-> out.abort, before |-> gh]
           /\ pc' = IF out.abort = "none" THEN "coarsened" ELSE "aborted"
    /\ UNCHANGED <<other, refh, cf, wk, nops>>

NextPipe ==
    \/ Construct \/ ConstructFails \/ GenerateDensity \/ CutAdjust
    \/ NormalizeDensity \/ NormalizeLevelminDensity \/ CoarsenDensity

SpecPipe == InitPipe /\ [][NextPipe]_vars

-----------------------------------------------------------------------------
(* GenerateDensityHierarchy statement by statement.  wk holds its locals:   *)
(* the pointers top, coarse and fine (Null or the number of a working       *)
(* grid), the loop index i, every working grid allocated so far with its    *)
(* level, extent and whether it was deleted, the calls made so far, and     *)
(* the first misuse of a working grid, if any.                              *)

Null == 0
ConvMargin == 4    \* setup/convolution_margin, its default

\* the spectral couplers, as far as their control flow goes: whether the
\* routine stops on its precondition and whether it transforms and writes.
\* fft_coarsen(v, V) has no precondition; fft_interpolate(V, v, ..) asserts
\* even extents of v, and the assertion is compiled out under NDEBUG
IsEven3(n) == \A d \in Dims : n[d] % 2 = 0

fft_coarsen(nFine, nCoarse) ==
    [aborted |-> FALSE, transformed |-> TRUE, written |-> TRUE]

fft_interpolate(nCoarse, nFine, ndebug) ==
    IF ~IsEven3(nFine) /\ ~ndebug
    THEN [aborted |-> TRUE, transformed |-> FALSE, written |-> FALSE]
    ELSE [aborted |-> FALSE, transformed |-> TRUE, written |-> TRUE]

\* extent of a PaddedDensitySubGrid: the patch plus the margin on both sides,
\* or the doubled patch when no margin is set
PaddedExtent(n, margin) ==
    [d \in Dims |-> IF margin > 0 THEN n[d] + 2 * margin ELSE 2 * n[d]]

StartWork ==
    [top |-> Null, coarse |-> Null, fine |-> Null, i |-> 0,
     grids |-> <<>>, log |-> <<>>, fault |-> "none"]

\* new DensityGrid / new PaddedDensitySubGrid: the grid gets the next number
NewGrid(w, level, n) ==
    [w EXCEPT !.grids = Append(@, [level |-> level, n |-> n, deleted |-> FALSE]),
              !.log = Append(@, [call |-> "new", level |-> level, grid |-> Len(w.grids) + 1,
                                 with |-> Null, flag |-> FALSE])]

IsLive(w, p) == p # Null /\ ~w.grids[p].deleted

Fault(w, what) == IF w.fault = "none" THEN [w EXCEPT !.fault = what] ELSE w

\* a call that reads or writes the working grids ps
Call(w, e, ps) ==
    LET w1 == [w EXCEPT !.log = Append(@, e)]
    IN  IF \A p \in ps : IsLive(w, p) THEN w1 ELSE Fault(w1, "use of a deleted or null grid")

\* delete p: nothing for a null pointer
DeleteGrid(w, p) ==
    IF p = Null THEN w
    ELSE IF w.grids[p].deleted THEN Fault(w, "grid deleted twice")
    ELSE [w EXCEPT !.grids[p].deleted = TRUE,
                   !.log = Append(@, [call |-> "delete", level |-> w.grids[p].level,
                                      grid |-> p, with |-> Null, flag |-> FALSE])]

\* the working grids allocated and not deleted
LiveGrids(w) == {p \in 1..Len(w.grids) : ~w.grids[p].deleted}

GenLevel(c, w) == c.levelmin_TF + w.i
GenLevels(c) == c.levelmax - c.levelmin_TF + 1

\* one call of the routine: what is called, for which level, on which working
\* grid, against which other working grid, and the flag it is given
Ev(call, level, p, with, flag) ==
    [call |-> call, level |-> level, grid |-> p, with |-> with, flag |-> flag]

\* top = new DensityGrid(nbase, nbase, nbase); rand.load(*top, levelmin);
\* convolution::perform(fetch_kernel(levelmin, false), top)
ConvolveTop(w, lm) ==
    Call(Call([NewGrid(w, lm, Cube(Pow2(lm))) EXCEPT !.top = Len(w.grids) + 1],
              Ev("load", lm, Len(w.grids) + 1, Null, FALSE), {Len(w.grids) + 1}),
         Ev("perform", lm, Len(w.grids) + 1, Null, FALSE), {Len(w.grids) + 1})

\* delta.create_base_hierarchy(levelmin); top->copy(*delta.get_grid(levelmin))
CopyTop(w, lm) ==
    Call(Call(w, Ev("create_base_hierarchy", lm, Null, Null, FALSE), {}),
         Ev("copy", lm, w.top, Null, FALSE), {w.top})

\* rand.load(*fine, levelmin + i); convolution::perform(fetch_kernel(.., true), fine)
ConvolveFine(w, L) ==
    Call(Call(w, Ev("load", L, w.fine, Null, FALSE), {w.fine}),
         Ev("perform", L, w.fine, Null, TRUE), {w.fine})

\* (mutant: every splice reads the top grid)
SpliceSource_always_top(w) == w.top

\* the grid the splice reads: *top in the first pass of the loop, else *coarse
SpliceSource(w) == IF w.i = 1 THEN w.top ELSE w.coarse

\* fft_interpolate(*top, *fine, margin, true) or (*coarse, *fine, margin, false)
Splice(w, L) ==
    Call(w, Ev("fft_interpolate", L, w.fine, SpliceSource(w), w.i = 1),
         {w.fine, SpliceSource(w)})

\* delta.add_patch(..); fine->copy_unpad(*delta.get_grid(levelmin + i))
PatchCalls(w, L) ==
    Call(Call(w, Ev("add_patch", L, Null, Null, FALSE), {}),
         Ev("copy_unpad", L, w.fine, Null, FALSE), {w.fine})

\* if (i == 1) delete top; else delete coarse;   coarse = fine;   ++i
Retire(w) ==
    [DeleteGrid(w, IF w.i = 1 THEN w.top ELSE w.coarse)
        EXCEPT !.coarse = w.fine, !.i = w.i + 1]

GenConfigs == {c \in PipeConfigs : c.levelmin_TF <= c.levelmax}

InitGen ==
    /\ gh = GridHierarchy(Nbnd)
    /\ other = GridHierarchy(Nbnd)
    /\ refh = NoRefh
    /\ cf \in GenConfigs
    /\ ret = NoRet
    /\ pc = "construct"
    /\ nops = 0
    /\ wk = NoWork

\* the coarse level: lines 352-362
GenBase ==
    /\ pc = "run"
    /\ wk' = [CopyTop(ConvolveTop(StartWork, cf.levelmin_TF), cf.levelmin_TF)
                 EXCEPT !.i = 1]
    /\ gh' = copy_into(create_base_hierarchy(gh, cf.levelmin_TF), cf.levelmin_TF)
    /\ pc' = "loop"
    /\ UNCHANGED <<other, refh, cf, ret, nops>>

\* fine = new PaddedDensitySubGrid(offset, size, margin)
GenAllocFine ==
    /\ pc = "loop"
    /\ wk.i < GenLevels(cf)
    /\ wk' = [NewGrid(wk, GenLevel(cf, wk),
                      PaddedExtent(refh.len_[GenLevel(cf, wk) + 1], ConvMargin))
                 EXCEPT !.fine = Len(wk.grids) + 1]
    /\ pc' = "convolve"
    /\ UNCHANGED <<gh, other, refh, cf, ret, nops>>

\* noise, convolution and the spectral splice of the new working grid; a
\* failed assertion of fft_interpolate aborts the program
GenConvolve ==
    /\ pc = "convolve"
    /\ wk' = Splice(ConvolveFine(wk, GenLevel(cf, wk)), GenLevel(cf, wk))
    /\ pc' = IF fft_interpolate(wk.grids[SpliceSource(wk)].n, wk.grids[wk.fine].n,
                                cf.ndebug).aborted
             THEN "aborted" ELSE "patch"
    /\ UNCHANGED <<gh, other, refh, cf, ret, nops>>

GenAddPatch ==
    /\ pc = "patch"
    /\ wk' = PatchCalls(wk, GenLevel(cf, wk))
    /\ gh' = copy_into(add_patch(gh, refh.offsets_[GenLevel(cf, wk) + 1],
                                 refh.len_[GenLevel(cf, wk) + 1]),
                       GenLevel(cf, wk))
    /\ pc' = "retire"
    /\ UNCHANGED <<other, refh, cf, ret, nops>>

GenRetire ==
    /\ pc = "retire"
    /\ wk' = Retire(wk)
    /\ pc' = "loop"
    /\ UNCHANGED <<gh, other, refh, cf, ret, nops>>

\* the loop is left: delete coarse, and the routine returns
GenReturn ==
    /\ pc = "loop"
    /\ wk.i >= GenLevels(cf)
    /\ wk' = DeleteGrid(wk, wk.coarse)
    /\ ret' = [op |-> "GenerateDensityHierarchy"]
    /\ pc' = "generated"
    /\ UNCHANGED <<gh, other, refh, cf, nops>>

NextGen ==
    \/ Construct \/ ConstructFails \/ GenBase \/ GenAllocFine \/ GenConvolve
    \/ GenAddPatch \/ GenRetire \/ GenReturn

SpecGen == InitGen /\ [][NextGen]_vars

-----------------------------------------------------------------------------
(* The spectral coupler routines called on their own: cf holds the extents  *)
(* of the fine array v and of the coarse array V and whether the build      *)
(* defines NDEBUG.                                                           *)

FftMaxExtent == 3  \* largest axis extent of the arrays handed to the routines

FftExtents == (1..FftMaxExtent) \X (1..FftMaxExtent) \X (1..FftMaxExtent)
FftCoarseExtents == {<<1, 1, 1>>, <<2, 2, 2>>, <<1, 2, 3>>, <<4, 2, 4>>, <<3, 4, 2>>}

\* (mutant: the upper half of the coarse indices is not moved)
FineBin_unmoved(i, nc, nf) == i

\* the fine index the blend loop pairs with the coarse index i on an axis of
\* nc coarse and nf fine cells: "if (i > nxc / 2) ii += nxf / 2"
FineBin(i, nc, nf) == IF i > nc \div 2 THEN i + nf \div 2 ELSE i

\* kx = (i <= nxc / 2) ? i : i - nxc, the signed wavenumber of index i
Wavenumber(i, n) == IF i <= n \div 2 THEN i ELSE i - n

\* position of bin (i, j, k) in a half-complex array of an n-cell real grid
BinIdx(c, n) == (c[1] * n[2] + c[2]) * (n[3] \div 2 + 1) + c[3]

\* the iterations of the blend loop over a coarse grid of nc cells and the
\* bins each one reads and writes: qc in ccoarse, qf in cfine
BlendLoop(nc, nf) ==
    [c \in (0..(nc[1] - 1)) \X (0..(nc[2] - 1)) \X (0..(nc[3] \div 2)) |->
        LET f == <<FineBin(c[1], nc[1], nf[1]), FineBin(c[2], nc[2], nf[2]),
                   FineBin(c[3], nc[3], nf[3])>>
        IN  [fine |-> f, qc |-> BinIdx(c, nc), qf |-> BinIdx(f, nf)]]

\* fft_coarsen blends over the extent of V; its loop never moves k
CoarsenLoop(nFine, nCoarse) == BlendLoop(nCoarse, nFine)

\* fft_interpolate blends over nxc = nxf / 2, nyc = nyf / 2, nzc = nzf / 2
InterpolateLoop(nFine) ==
    BlendLoop(<<nFine[1] \div 2, nFine[2] \div 2, nFine[3] \div 2>>, nFine)

InitFFT ==
    /\ gh = GridHierarchy(Nbnd)
    /\ other = GridHierarchy(Nbnd)
    /\ refh = NoRefh
    /\ cf \in {[v |-> n, V |-> N, ndebug |-> b] :
                  N \in FftCoarseExtents, b \in BOOLEAN,
                  n \in FftExtents \cup {<<2 * N[1], 2 * N[2], 2 * N[3]>> : N \in FftCoarseExtents}}
    /\ ret = NoRet
    /\ pc = "fft"
    /\ nops = 0
    /\ wk = NoWork

FftCoarsen ==
    /\ pc = "fft"
    /\ ret' = [op |-> "fft_coarsen", r |-> fft_coarsen(cf.v, cf.V),
               nc |-> cf.V, loop |-> CoarsenLoop(cf.v, cf.V)]
    /\ pc' = "returned"
    /\ UNCHANGED <<gh, other, refh, cf, wk, nops>>

FftInterpolate ==
    /\ pc = "fft"
    /\ ret' = [op |-> "fft_interpolate", r |-> fft_interpolate(cf.V, cf.v, cf.ndebug),
               nc |-> <<cf.v[1] \div 2, cf.v[2] \div 2, cf.v[3] \div 2>>,
               loop |-> IF fft_interpolate(cf.V, cf.v, cf.ndebug).aborted
                        THEN <<>> ELSE InterpolateLoop(cf.v)]
    /\ pc' = "returned"
    /\ UNCHANGED <<gh, other, refh, cf, wk, nops>>

NextFFT == FftCoarsen \/ FftInterpolate

SpecFFT == InitFFT /\ [][NextFFT]_vars

-----------------------------------------------------------------------------
(* The domain shift of the resolver: cf holds setup/levelmin, setup/levelmax, *)
(* setup/no_shift, setup/force_shift, random/base_unit and the bounding box  *)
(* of the region, x0ref and lxref, in sixteenths of the box length.          *)

ShiftMaxUnit == 6    \* largest random/base_unit explored
ShiftMaxLevel == 3   \* largest setup/levelmin explored

RECURSIVE LevelM(_, _, _)
\* the loop "while (base_unit * (1 << level_m) < (1 << levelmin)) ++level_m"
LevelM(base_unit, lmin, level_m) ==
    IF base_unit * Pow2(level_m) < Pow2(lmin)
    THEN LevelM(base_unit, lmin, level_m + 1)
    ELSE level_m

\* (mutant: the unit is never widened)
get_shift_unit_one(base_unit, lmin) == 1

\* get_shift_unit(base_unit, lmin)
get_shift_unit(base_unit, lmin) ==
    Max2(1, Pow2(lmin)
              \div Gcd(base_unit * Pow2(LevelM(base_unit, lmin, 0)), Pow2(lmin)))

\* xc = fmod(x0ref + 0.5 * lxref, 1.0), both given in sixteenths
RegionCentre(x0, lx) == RNorm((2 * x0 + lx) % 32, 32)

\* (int)((0.5 - xc) * ncoarse / shift_unit + 0.5) * shift_unit
SnapShift(xc, ncoarse, shift_unit) ==
    LET v == RAdd(RMul(RSub(<<1, 2>>, xc), RNorm(ncoarse, shift_unit)), <<1, 2>>)
    IN  CDiv(v[1], v[2]) * shift_unit

\* "determine shift": x0ref, lxref are the full box when levelmin == levelmax
xshift(c) ==
    IF c.levelmin # c.levelmax /\ (~c.no_shift \/ c.force_shift)
    THEN [d \in Dims |->
            SnapShift(RegionCentre(c.x0ref[d], c.lxref[d]), Pow2(c.levelmin),
                      get_shift_unit(c.base_unit, c.levelmin))]
    ELSE Zero3

ShiftBoxes == {<<<<0, 0, 0>>, <<4, 8, 16>>>>, <<<<2, 9, 13>>, <<2, 4, 5>>>>,
               <<<<12, 1, 6>>, <<3, 2, 10>>>>}

InitShift ==
    /\ gh = GridHierarchy(Nbnd)
    /\ other = GridHierarchy(Nbnd)
    /\ refh = NoRefh
    /\ cf \in {[levelmin |-> lmin, levelmax |-> lmin + dl, no_shift |-> ns,
                 force_shift |-> fs, base_unit |-> bu, x0ref |-> b[1], lxref |-> b[2]] :
                  lmin \in 0..ShiftMaxLevel, dl \in 0..1, ns \in BOOLEAN, fs \in BOOLEAN,
                  bu \in 1..ShiftMaxUnit, b \in ShiftBoxes}
    /\ ret = NoRet
    /\ pc = "construct"
    /\ nops = 0
    /\ wk = NoWork

GetShiftUnit ==
    /\ pc = "construct"
    /\ ret.op = "none"
    /\ ret' = [op |-> "get_shift_unit", u |-> get_shift_unit(cf.base_unit, cf.levelmin)]
    /\ UNCHANGED <<gh, other, refh, cf, wk, pc, nops>>

DetermineShift ==
    /\ pc = "construct"
    /\ ret' = [op |-> "shift", xshift |-> xshift(cf)]
    /\ pc' = "shifted"
    /\ UNCHANGED <<gh, other, refh, cf, wk, nops>>

NextShift == GetShiftUnit \/ DetermineShift

SpecShift == InitShift /\ [][NextShift]_vars

-----------------------------------------------------------------------------
(* Arithmetic between two hierarchies: the left operand gh is built, filled, *)
(* copied into other, changed further, then gh op= other is applied.        *)

OpsBase == 2       \* deepest base hierarchy of the operands

OpNames == {"add", "sub", "mul", "div"}

InitOps ==
    /\ gh = GridHierarchy(Nbnd)
    /\ other = GridHierarchy(Nbnd)
    /\ refh = NoRefh
    /\ cf = [ndebug |-> FALSE]
    /\ ret = NoRet
    /\ pc = "run"
    /\ nops = 0
    /\ wk = NoWork

OpsCreateBase ==
    /\ Step
    /\ Len(gh.pgrids) = 0
    /\ \E lmax \in 1..OpsBase :
          /\ gh' = create_base_hierarchy(gh, lmax)
          /\ ret' = [op |-> "create_base_hierarchy", lmax |-> lmax, before |-> 0]
    /\ UNCHANGED <<other, refh, cf, wk, pc>>

\* values are written into one level (a copy from a working grid, a
\* restriction), before the copy of the hierarchy is taken
OpsFill ==
    /\ pc = "run"
    /\ Len(other.pgrids) = 0
    /\ \E L \in Levels(gh) :
          /\ gh' = copy_into(gh, L)
          /\ gh' # gh
          /\ ret' = [op |-> "copy", level |-> L]
    /\ UNCHANGED <<other, refh, cf, wk, pc, nops>>

\* other is copy-constructed from gh
OpsCopy ==
    /\ pc = "run"
    /\ Len(gh.pgrids) > 0 /\ Len(other.pgrids) = 0
    /\ other' = CopyOf(gh)
    /\ ret' = [op |-> "GridHierarchy", from |-> "gh"]
    /\ UNCHANGED <<gh, refh, cf, wk, pc, nops>>

\* a level of gh is cut in place to a smaller extent
OpsCut ==
    /\ Step
    /\ \E ilevel \in Levels(gh), n \in CutExtents :
          /\ \A d \in Dims : n[d] <= size(gh, ilevel, d)
          /\ gh' = cut_patch(gh, ilevel, gh.offabs[ilevel + 1], n, FALSE)
          /\ ret' = [op |-> "cut_patch", ilevel |-> ilevel, xoff |-> gh.offabs[ilevel + 1],
                     n |-> n, dx |-> Zero3]
    /\ UNCHANGED <<other, refh, cf, wk, pc>>

\* gh op= other; two empty hierarchies are not combined
ApplyOp ==
    /\ pc = "run"
    /\ Len(gh.pgrids) > 0 \/ Len(other.pgrids) > 0
    /\ \E op \in OpNames :
          /\ gh' = HierOp(op, gh, other).g
          /\ ret' = [op |-> op, error |-> HierOp(op, gh, other).error,
                     differ |-> \/ Len(gh.pgrids) # Len(other.pgrids)
                                \/ \E i \in Levels(gh) :
                                      \/ grid(gh, i).n # grid(other, i).n
                                      \/ grid(gh, i).off # grid(other, i).off,
                     modified |-> HierOp(op, gh, other).g # gh]
    /\ pc' = "applied"
    /\ UNCHANGED <<other, refh, cf, wk, nops>>

NextOps == OpsCreateBase \/ OpsFill \/ OpsCopy \/ OpsCut \/ AddPatch \/ ApplyOp

SpecOps == InitOps /\ [][NextOps]_vars

-----------------------------------------------------------------------------
(* The refinement mask: a base hierarchy is created, patches are added,     *)
(* add_refinement_mask runs under some answers of the region generator,     *)
(* and the output plugin queries the cells and counts the leaf cells.       *)

MaskBase == 2      \* deepest base hierarchy a mask is built on
MaskPatches == 2   \* most refinement levels above the base

MaskExtents == {<<2, 2, 2>>, <<4, 2, 2>>}
MaskOffsets == {<<0, 0, 0>>, <<1, 0, 0>>}

\* a patch lies inside the level it refines
PatchFits(g, off, n) ==
    \A d \in Dims : off[d] + n[d] \div 2 <= size(g, levelmax(g), d)

InitMask ==
    /\ gh = GridHierarchy(Nbnd)
    /\ other = GridHierarchy(Nbnd)
    /\ refh = NoRefh
    /\ cf \in [ndebug : BOOLEAN]
    /\ ret = NoRet
    /\ pc = "build"
    /\ nops = 0
    /\ wk = NoWork

MaskCreateBase ==
    /\ pc = "build"
    /\ Len(gh.pgrids) = 0
    /\ \E lmax \in 1..MaskBase :
          /\ gh' = create_base_hierarchy(gh, lmax)
          /\ ret' = [op |-> "create_base_hierarchy", lmax |-> lmax]
    /\ UNCHANGED <<other, refh, cf, wk, pc, nops>>

MaskAddPatch ==
    /\ pc = "build"
    /\ Len(gh.pgrids) > 0
    /\ levelmax(gh) - levelmin(gh) < MaskPatches
    /\ \E off \in MaskOffsets, n \in MaskExtents :
          /\ PatchFits(gh, off, n)
          /\ gh' = add_patch(gh, off, n)
          /\ ret' = [op |-> "add_patch", off |-> off, n |-> n]
    /\ UNCHANGED <<other, refh, cf, wk, pc, nops>>

AddRefinementMask ==
    /\ pc = "build"
    /\ Len(gh.pgrids) > 0
    /\ \E Q \in SUBSET QueryBlocks(gh) :
          /\ gh' = add_refinement_mask(gh, Q)
          /\ ret' = [op |-> "add_refinement_mask", Q |-> Q]
    /\ pc' = "masked"
    /\ UNCHANGED <<other, refh, cf, wk, nops>>

\* the loops of the output plugin over the cells of a level: the cells
\* is_refined and is_in_mask answer true for
QueryLevel ==
    /\ pc \in {"build", "masked"}
    /\ \E L \in Levels(gh) :
          ret' = [op |-> "query", level |-> L,
                  refined |-> {c \in Logical(grid(gh, L).n) : is_refined(gh, L, c)},
                  in_mask |-> {c \in Logical(grid(gh, L).n) : is_in_mask(gh, L, c)}]
    /\ pc' = "queried"
    /\ UNCHANGED <<gh, other, refh, cf, wk, nops>>

CountLeafCells ==
    /\ pc \in {"build", "masked"}
    /\ Len(gh.pgrids) > 0
    /\ \E lmin \in levelmin(gh)..levelmax(gh) :
          ret' = [op |-> "count_leaf_cells", lmin |-> lmin, lmax |-> levelmax(gh),
                  count |-> count_leaf_cells(gh, lmin, levelmax(gh)),
                  masked |-> pc = "masked"]
    /\ pc' = "counted"
    /\ UNCHANGED <<gh, other, refh, cf, wk, nops>>

\* cut_patch on a refined level of a hierarchy whose mask is built: the level
\* is cropped to a smaller extent, at an even distance from where it was
MaskCutExtents == {<<2, 2, 2>>}
MaskCutShifts == {<<0, 0, 0>>, <<2, 0, 0>>}

MaskCutPatch ==
    /\ pc = "masked"
    /\ gh.bhave_refmask
    /\ \E ilevel \in (levelmin(gh) + 1)..levelmax(gh), n \in MaskCutExtents,
          sh \in MaskCutShifts, e \in BOOLEAN :
          /\ n # grid(gh, ilevel).n
          /\ \A d \in Dims : sh[d] + n[d] <= size(gh, ilevel, d)
          /\ gh' = cut_patch(gh, ilevel,
                             [d \in Dims |-> offset_abs(gh, ilevel, d) + sh[d]], n, e)
          /\ ret' = [op |-> "cut_patch", ilevel |-> ilevel, n |-> n, shift |-> sh]
    /\ pc' = "cut"
    /\ UNCHANGED <<other, refh, cf, wk, nops>>

NextMask ==
    \/ MaskCreateBase \/ MaskAddPatch \/ AddRefinementMask
    \/ QueryLevel \/ CountLeafCells \/ MaskCutPatch

SpecMask == InitMask /\ [][NextMask]_vars

-----------------------------------------------------------------------------
(* Assignment and copy construction: gh is built, masked and cut as above, *)
(* and other is assigned from it or copy-constructed from it (SpecAssign)   *)

MaxAssign == 2     \* most assignments to other in one behaviour

\* MeshvarBnd::operator=: the allocated extents and the data are taken, the
\* ghost width and the offset are not
MeshAssign(m, v) == [m EXCEPT !.n = v.n, !.data = v.data]

\* GridHierarchy::operator=(const GridHierarchy&) with a non-empty right
\* side b: the masks of b are pushed behind the masks a holds; an
\* inconsistent a takes the grids, levelmin, ghost width and absolute
\* offsets of b, a consistent one the data level by level
operator_assign(a, b) ==
    LET m == [a EXCEPT !.bhave_refmask = b.bhave_refmask,
                       !.ref_masks = IF b.bhave_refmask
                                     THEN @ \o SubSeq(b.ref_masks, 1, levelmax(b) + 1)
                                     ELSE @]
    IN  IF ~is_consistent(a, b)
        THEN [m EXCEPT !.pgrids = b.pgrids, !.levelmin = b.levelmin,
                       !.nbnd = b.nbnd, !.offabs = b.offabs]
        ELSE [m EXCEPT !.pgrids = [i \in DOMAIN @ |-> MeshAssign(@[i], b.pgrids[i])]]

InitAssign ==
    /\ gh = GridHierarchy(Nbnd)
    /\ other = GridHierarchy(Nbnd)
    /\ refh = NoRefh
    /\ cf \in [ndebug : BOOLEAN]
    /\ ret = NoRet
    /\ pc = "build"
    /\ nops = 0
    /\ wk = NoWork

\* other = gh
Assign ==
    /\ pc \in {"build", "masked", "cut"}
    /\ Len(gh.pgrids) > 0
    /\ nops < MaxAssign
    /\ other' = operator_assign(other, gh)
    /\ ret' = [op |-> "operator=", before |-> other]
    /\ nops' = nops + 1
    /\ UNCHANGED <<gh, refh, cf, wk, pc>>

\* other is copy-constructed from gh
CopyConstruct ==
    /\ pc \in {"build", "masked", "cut"}
    /\ Len(gh.pgrids) > 0
    /\ other = GridHierarchy(Nbnd)
    /\ other' = CopyOf(gh)
    /\ ret' = [op |-> "GridHierarchy", from |-> "gh"]
    /\ UNCHANGED <<gh, refh, cf, wk, pc, nops>>

NextAssign ==
    \/ MaskCreateBase \/ MaskAddPatch \/ AddRefinementMask \/ MaskCutPatch
    \/ Assign \/ CopyConstruct

SpecAssign == InitAssign /\ [][NextAssign]_vars

-----------------------------------------------------------------------------
(* The write routines of the swift output plugin: the hierarchy is built   *)
(* and masked as above and handed to one routine (SpecSwift).  The plugin's *)
(* levelmin_ and levelmax_ are the levels of the configuration the          *)
(* hierarchy was generated from.                                            *)

\* the loop of a write routine over the levels hi down to lo: the number of
\* elements it stores, data[count++], one for each cell that is in the mask
\* and not refined
RECURSIVE LeafLoop(_, _, _)
LeafLoop(g, hi, lo) ==
    IF hi < lo THEN 0
    ELSE Cardinality({c \in Logical(grid(g, hi).n) :
                         is_in_mask(g, hi, c) /\ ~is_refined(g, hi, c)})
            + LeafLoop(g, hi - 1, lo)

\* (mutant: the coarse count takes in the finest level)
countLeafCells_coarse_all(g, lmin_, lmax_) ==
    [npfine |-> count_leaf_cells(g, levelmax(g), levelmax(g)),
     npart |-> count_leaf_cells(g, levelmin(g), levelmax(g)),
     npcoarse |-> IF lmax_ # lmin_
                  THEN count_leaf_cells(g, levelmin(g), levelmax(g))
                  ELSE 0]

\* countLeafCells(gh): npfine, npart and, for more than one level, npcoarse
countLeafCells(g, lmin_, lmax_) ==
    [npfine |-> count_leaf_cells(g, levelmax(g), levelmax(g)),
     npart |-> count_leaf_cells(g, levelmin(g), levelmax(g)),
     npcoarse |-> IF lmax_ # lmin_
                  THEN count_leaf_cells(g, levelmin(g), levelmax(g) - 1)
                  ELSE 0]

\* one buffer of a routine: its size and the number of elements stored
Buffer(name, len, count) == [name |-> name, size |-> len, count |-> count]

FineError == "Internal consistency error while writing fine DM"
CoarseError == "Internal consistency error while writing coarse DM"
GasError == "Internal consistency error while writing GAS pos"

\* the first buffer whose count differs from its size raises the error
RECURSIVE FirstError(_)
FirstError(bufs) ==
    IF bufs = <<>> THEN "none"
    ELSE IF bufs[1].count # bufs[1].size
    THEN IF bufs[1].name = "fine" THEN FineError
         ELSE IF bufs[1].name = "coarse" THEN CoarseError ELSE GasError
    ELSE FirstError(Tail(bufs))

Written(name, g, bufs) ==
    [op |-> name, np |-> countLeafCells(g, levelmin(g), levelmax(g)),
     bufs |-> bufs, error |-> FirstError(bufs)]

\* the fine buffer of the dark matter routines
FineBuffer(g) ==
    Buffer("fine", countLeafCells(g, levelmin(g), levelmax(g)).npfine,
           LeafLoop(g, levelmax(g), levelmax(g)))

\* the coarse buffer of the dark matter routines
CoarseBuffer(g) ==
    Buffer("coarse", countLeafCells(g, levelmin(g), levelmax(g)).npcoarse,
           LeafLoop(g, levelmax(g) - 1, levelmin(g)))

\* the buffer of the gas routines, over the levels hi down to lo
GasBuffer(g, hi, lo) ==
    Buffer("gas", countLeafCells(g, levelmin(g), levelmax(g)).npart, LeafLoop(g, hi, lo))

InitSwift ==
    /\ gh = GridHierarchy(Nbnd)
    /\ other = GridHierarchy(Nbnd)
    /\ refh = NoRefh
    /\ cf \in [ndebug : BOOLEAN]
    /\ ret = NoRet
    /\ pc = "build"
    /\ nops = 0
    /\ wk = NoWork

\* __write_dm_mass: the coarse buffer exists for more than two levels only
WriteDmMass ==
    /\ pc = "masked"
    /\ ret' = Written("write_dm_mass", gh,
                      IF levelmax(gh) > levelmin(gh) + 1
                      THEN <<FineBuffer(gh), CoarseBuffer(gh)>>
                      ELSE <<FineBuffer(gh)>>)
    /\ pc' = "written"
    /\ UNCHANGED <<gh, other, refh, cf, wk, nops>>

\* __write_dm_position, __write_dm_velocity: the coarse buffer exists for
\* more than one level
WriteDmField ==
    /\ pc = "masked"
    /\ \E name \in {"write_dm_position", "write_dm_velocity"} :
          ret' = Written(name, gh,
                         IF levelmax(gh) # levelmin(gh)
                         THEN <<FineBuffer(gh), CoarseBuffer(gh)>>
                         ELSE <<FineBuffer(gh)>>)
    /\ pc' = "written"
    /\ UNCHANGED <<gh, other, refh, cf, wk, nops>>

\* __write_gas_velocity: the loop runs over levelmax_ down to levelmin_
WriteGasVelocity ==
    /\ pc = "masked"
    /\ ret' = Written("write_gas_velocity", gh,
                      <<GasBuffer(gh, levelmax(gh), levelmin(gh))>>)
    /\ pc' = "written"
    /\ UNCHANGED <<gh, other, refh, cf, wk, nops>>

\* __write_gas_position: the loop runs over gh.levelmax() down to gh.levelmin()
WriteGasPosition ==
    /\ pc = "masked"
    /\ ret' = Written("write_gas_position", gh,
                      <<GasBuffer(gh, levelmax(gh), levelmin(gh))>>)
    /\ pc' = "written"
    /\ UNCHANGED <<gh, other, refh, cf, wk, nops>>

NextSwift ==
    \/ MaskCreateBase \/ MaskAddPatch \/ AddRefinementMask
    \/ WriteDmMass \/ WriteDmField \/ WriteGasVelocity \/ WriteGasPosition

SpecSwift == InitSwift /\ [][NextSwift]_vars

-----------------------------------------------------------------------------
(* Claims about the grid store (SpecGH) *)

\* x = 2 * y, written so that no intermediate leaves the 32-bit range
IsTwice(x, y) == x % 2 = 0 /\ x \div 2 = y

\* offset_abs(L, d) = 2 * offset_abs(L - 1, d) + 2 * offset(L, d)
CrossLevel(g, L, d) ==
    IsTwice(offset_abs(g, L, d) - 2 * offset_abs(g, L - 1, d), offset(g, L, d))

AllZero(m) == \A c \in DOMAIN m.data : m.data[c] = RZero

\* C1: right after create_base_hierarchy(lmax), whatever the hierarchy held
\* before, levelmax() = levelmin() = lmax, every level L in 0..lmax is a cube
\* of side 2^L at relative and absolute offset 0 with all cells zero, and
\* there is exactly one refinement mask per level.
C1_CreateBase ==
    ret.op = "create_base_hierarchy" =>
        /\ levelmax(gh) = ret.lmax
        /\ levelmin(gh) = ret.lmax
        /\ \A L \in 0..ret.lmax :
              /\ \A d \in Dims : /\ size(gh, L, d) = 2 ^ L
                                 /\ offset(gh, L, d) = 0
                                 /\ offset_abs(gh, L, d) = 0
              /\ AllZero(grid(gh, L))
        /\ Len(gh.ref_masks) = ret.lmax + 1
        /\ Len(gh.offabs) = ret.lmax + 1

\* C1 witness: create_base_hierarchy(1) was applied to a hierarchy that
\* already held levels
C1_Witness ==
    ret.op = "create_base_hierarchy" /\ ret.lmax = 1 /\ ret.before >= 2

C6_GetGrid ==
    /\ [](ret.op = "get_grid" =>
            IF 0 <= ret.ilevel /\ ret.ilevel <= levelmax(gh)
            THEN ret.result = [grid |-> ret.ilevel]
            ELSE ret.result = [error |-> NonExistentGrid])
    /\ [][ret'.op = "get_grid" => gh' = gh]_vars

\* C6 witness: get_grid(0) was asked of a hierarchy that had been populated
\* and deallocated
C6_Witness ==
    /\ ret.op = "get_grid" /\ ret.ilevel = 0
    /\ Len(gh.pgrids) = 0 /\ nops >= 2
    /\ "error" \in DOMAIN ret.result


\* the cross-level relation of a geometry record, levels above levelmin()
GeomCrossLevel(r) ==
    \A L \in 1..r.levelmax_ : \A d \in Dims :
        L > r.levelmin_ =>
            IsTwice(rh_offset_abs(r, L, d) - 2 * rh_offset_abs(r, L - 1, d),
                    rh_offset(r, L, d))

\* C3 (as stated): in a refinement_hierarchy, offset_abs(L, d) equals
\* 2*offset_abs(L-1, d) + 2*offset(L, d) for every level above levelmin(),
\* after every successful construction and after any sequence of adjust_level
\* calls with any level, new absolute offset and extent.
C3_AnyAdjust == IsBuilt(refh) => GeomCrossLevel(refh)

\* C3 (amended): the same relation holds after every successful construction
\* and after any sequence of adjust_level calls whose new absolute offsets
\* each differ from the level's current one by an even amount.
C3_EvenAdjust == (IsBuilt(refh) /\ ret.evenDeltas) => GeomCrossLevel(refh)

C3_Witness ==
    /\ IsBuilt(refh)
    /\ ret.op = "adjust_level" /\ ret.evenDeltas /\ nops = MaxAdjust
    /\ ret.oa # Zero3
    /\ ret.ilevel > refh.levelmin_ /\ ret.ilevel < refh.levelmax_
    /\ refh.offsets_[ret.ilevel + 2] # Zero3
    /\ cf.padding = 1 /\ cf.equal_extent


\* C4: if the grid store and the geometry record agree on the extent, relative
\* offset and absolute offset of every level, then after the same change (level,
\* new absolute offset, new extent) is applied to both, by cut_patch and by
\* adjust_level, they agree on those again and on levelmin().
C4_PairAgrees ==
    (ret.op = "cut_adjust" /\ ret.agreed) =>
        (Agree(gh, refh) /\ levelmin(gh) = refh.levelmin_)

\* the levels both the configuration and the density generation call refined
RefinedLevels(c) == (Max2(c.levelmin, c.levelmin_TF) + 1)..c.levelmax

\* the store agrees with the record on level i, and its absolute offset is
\* twice the parent's absolute offset plus twice the record's relative offset
LevelMatches(g, r, i) ==
    \A d \in Dims :
        /\ size(g, i, d) = rh_size(r, i, d)
        /\ offset(g, i, d) = rh_offset(r, i, d)
        /\ IsTwice(offset_abs(g, i, d) - 2 * offset_abs(g, i - 1, d), rh_offset(r, i, d))
        /\ offset_abs(g, i, d) = rh_offset_abs(r, i, d)

\* C5 (as stated): after GenerateDensityHierarchy completes for levelmin <
\* levelmax, on every refined level the store has the record's extent and
\* relative offset, and its absolute offset is 2*offset_abs(i-1) +
\* 2*refh.offset(i) and equals the record's absolute offset.
C5_AnyLevelminTF ==
    ret.op = "GenerateDensityHierarchy" =>
        \A i \in RefinedLevels(cf) : LevelMatches(gh, refh, i)

\* C5 (amended): the same, when levelmin_TF is not above levelmin.
C5_DensityGeometry ==
    (ret.op = "GenerateDensityHierarchy" /\ cf.levelmin_TF <= cf.levelmin) =>
        \A i \in (cf.levelmin + 1)..cf.levelmax : LevelMatches(gh, refh, i)

C5_Witness ==
    /\ ret.op = "GenerateDensityHierarchy"
    /\ cf.levelmin_TF = cf.levelmin /\ cf.levelmax = cf.levelmin + 2
    /\ levelmax(gh) = cf.levelmax
    /\ \E d \in Dims : offset(gh, cf.levelmax, d) # 0
    /\ \E d \in Dims : offset_abs(gh, cf.levelmax - 1, d) # 0


\* C7: for +=, -=, *= and /= between two hierarchies, whenever the operands
\* differ in the number of levels or in the extent or offset of any level, the
\* operation raises a fatal error and no cell of the left operand is modified;
\* it never completes silently.
C7_IncompatibleOperands ==
    (ret.op \in OpNames /\ ret.differ) => (ret.error # "none" /\ ~ret.modified)

-----------------------------------------------------------------------------
(* Claims about the refinement mask (SpecMask) *)

\* the mask value of cell c of level L, read from the flat vector
MaskValue(g, L, c) ==
    g.ref_masks[L + 1].mask[(c[1] * size(g, L, 2) + c[2]) * size(g, L, 3) + c[3] + 1]

\* cell c of level L lies under the footprint of level L + 1
UnderFootprint(g, L, c) ==
    \A d \in Dims :
        /\ offset(g, L + 1, d) <= c[d]
        /\ c[d] < offset(g, L + 1, d) + size(g, L + 1, d) \div 2

ChildCells(g, L, c) ==
    {x \in Logical(grid(g, L + 1).n) :
        \A d \in Dims : x[d] \div 2 + offset(g, L + 1, d) = c[d]}

\* C9: after add_refinement_mask on a hierarchy with levelmin() < levelmax(),
\* whatever query_point answered, every mask cell of the levels levelmin()..
\* levelmax() holds -1, 1 or 2, and a cell of a level below levelmax() holds
\* 2 if and only if one of its children on the next level is inside the
\* mask (value >= 0) in the final mask.
C9_MaskConsistent ==
    (ret.op = "add_refinement_mask" /\ levelmin(gh) < levelmax(gh)) =>
        /\ \A L \in levelmin(gh)..levelmax(gh) : \A c \in Logical(grid(gh, L).n) :
              MaskValue(gh, L, c) \in {-1, 1, 2}
        /\ \A L \in levelmin(gh)..(levelmax(gh) - 1) : \A c \in Logical(grid(gh, L).n) :
              MaskValue(gh, L, c) = 2 <=>
                  \E x \in ChildCells(gh, L, c) : MaskValue(gh, L + 1, x) >= 0

\* the number of cells of mask value 1 on the levels levelmin()..levelmax()
MaskOnes(g) ==
    Cardinality(UNION {{<<L, c>> : c \in {x \in Logical(grid(g, L).n) :
                                             MaskValue(g, L, x) = 1}} :
                       L \in levelmin(g)..levelmax(g)})

\* C10: in the hierarchy states the pipeline reaches, the unigrid one with no
\* mask built and the multi-level ones after add_refinement_mask,
\* count_leaf_cells(levelmin(), levelmax()) is the number of cells of mask
\* value 1 on the levels levelmin()..levelmax().
C10_LeafCount ==
    (ret.op = "count_leaf_cells" /\ ret.masked /\ ret.lmin = levelmin(gh)) =>
        ret.count = MaskOnes(gh)

\* C11: a cut_patch call on a hierarchy whose mask is built recomputes the
\* mask: afterwards the mask of every level has the dimensions of the level's
\* grid, and count_leaf_cells(levelmin(), levelmax()) is the number of cells
\* of mask value 1.
C11_CutRebuildsMask ==
    (ret.op = "cut_patch" /\ pc = "cut" /\ gh.bhave_refmask) =>
        /\ \A L \in Levels(gh) : gh.ref_masks[L + 1].n = grid(gh, L).n
        /\ count_leaf_cells(gh, levelmin(gh), levelmax(gh)) = MaskOnes(gh)

-----------------------------------------------------------------------------
(* Claims about the constructed geometry record (SpecRH) *)

\* C12: a refinement_hierarchy constructed with levelmin < levelmax either
\* fails with a fatal error or has, on every level L in levelmin+1..levelmax
\* and in every dimension, 1 <= size(L) <= 2^(L-1): no box of non-positive
\* extent and no box wider than half the domain is in a constructed record.
C12_BoxesBounded ==
    (ret.op = "refinement_hierarchy" /\ IsBuilt(refh)) =>
        \A L \in (cf.levelmin + 1)..cf.levelmax : \A d \in Dims :
            1 <= rh_size(refh, L, d) /\ rh_size(refh, L, d) <= Pow2(L - 1)

\* a record was constructed in which one level fills half the domain in one
\* dimension and less in another
C12_Witness ==
    /\ ret.op = "refinement_hierarchy"
    /\ IsBuilt(refh)
    /\ \E L \in (cf.levelmin + 1)..cf.levelmax : \E d, e \in Dims :
          /\ rh_size(refh, L, d) = Pow2(L - 1)
          /\ rh_size(refh, L, e) < Pow2(L - 1)

-----------------------------------------------------------------------------
(* Claims about GenerateDensityHierarchy (SpecGen) *)

\* the positions in the log of the calls of one kind made for level L
At_(log, call, L) == {k \in 1..Len(log) : log[k].call = call /\ log[k].level = L}

\* the levels of the calls of one kind, in the order of the calls
RECURSIVE LevelsOf(_, _)
LevelsOf(log, call) ==
    IF log = <<>> THEN <<>>
    ELSE IF log[1].call = call THEN <<log[1].level>> \o LevelsOf(Tail(log), call)
    ELSE LevelsOf(Tail(log), call)

\* k is the only element of the set S
Only(S, k) == S = {k}

\* C13: GenerateDensityHierarchy visits the levels levelmin .. levelmax in
\* increasing order, each once; for each level the noise is loaded once and
\* then the kernel applied once; for each refined level the splice runs once,
\* after the level's convolution and before its add_patch, against the working
\* grid of the level before, on the base-grid convention exactly for the first
\* refined level; with levelmin = levelmax one level is visited and there is
\* no splice and no add_patch.
C13_LevelOrder ==
    pc = "generated" =>
        LET log == wk.log
            lm == cf.levelmin_TF
        IN  /\ LevelsOf(log, "load") = [k \in 1..(cf.levelmax - lm + 1) |-> lm + k - 1]
            /\ LevelsOf(log, "perform") = LevelsOf(log, "load")
            /\ \A L \in lm..cf.levelmax :
                  \E a \in At_(log, "load", L), b \in At_(log, "perform", L) : a < b
            /\ LevelsOf(log, "fft_interpolate") =
                  [k \in 1..(cf.levelmax - lm) |-> lm + k]
            /\ LevelsOf(log, "add_patch") = LevelsOf(log, "fft_interpolate")
            /\ \A L \in (lm + 1)..cf.levelmax :
                  \E b \in At_(log, "perform", L), f \in At_(log, "fft_interpolate", L),
                     a \in At_(log, "add_patch", L) :
                      /\ b < f /\ f < a
                      /\ wk.grids[log[f].with].level = L - 1
                      /\ wk.grids[log[f].grid].level = L
                      /\ log[f].flag <=> (L = lm + 1)

\* the routine returned after two refined levels: both splice conventions
\* were used
C13_Witness ==
    /\ pc = "generated"
    /\ cf.levelmax = cf.levelmin_TF + 2
    /\ \E f, g \in 1..Len(wk.log) :
          /\ wk.log[f].call = "fft_interpolate" /\ wk.log[f].flag
          /\ wk.log[g].call = "fft_interpolate" /\ ~wk.log[g].flag

\* the routine is running or has returned
Working == "log" \in DOMAIN wk

\* C19: during GenerateDensityHierarchy at most two working grids are
\* allocated at any time, the working grid of level L-1 is deleted before
\* the one of level L+1 is allocated, no working grid is deleted twice or
\* used after it was deleted, and when the routine has returned every working
\* grid it allocated has been deleted.
C19_WorkingGrids ==
    Working =>
        /\ Cardinality(LiveGrids(wk)) <= 2
        /\ \A a \in 1..Len(wk.log) : \A p \in 1..Len(wk.grids) :
              (wk.log[a].call = "new" /\ wk.grids[p].level + 2 = wk.log[a].level) =>
                  \E k \in 1..(a - 1) : wk.log[k].call = "delete" /\ wk.log[k].grid = p
        /\ wk.fault = "none"
        /\ pc = "generated" => LiveGrids(wk) = {}

-----------------------------------------------------------------------------
(* Claims about the mean removal (SpecPipe) *)

\* every logical cell of level L of g is the cell of b less m
LessOn(g, b, L, m) ==
    \A c \in Logical(grid(b, L).n) : grid(g, L).data[c] = RSub(grid(b, L).data[c], m)

\* the mean of the logical cells of level L
MeanOn(g, L) ==
    RDiv(LogicalSum(grid(g, L)), RInt(Cardinality(Logical(grid(g, L).n))))

-----------------------------------------------------------------------------
(* Claims about the spectral coupler routines (SpecFFT) *)

\* C15: fft_coarsen and fft_interpolate stop with a fatal precondition
\* failure, before transforming or writing anything, whenever an axis extent
\* of the array they operate on is odd.
C15_OddExtentsFatal ==
    (ret.op \in {"fft_coarsen", "fft_interpolate"} /\ ~IsEven3(cf.v)) =>
        (ret.r.aborted /\ ~ret.r.transformed /\ ~ret.r.written)

-----------------------------------------------------------------------------
(* Claims about cut_patch on a generated hierarchy (SpecPipe) *)

\* the last operation was a cut_patch that passed its assertion
IsCut == ret.op = "cut_adjust"

Plus3(c, d) == <<c[1] + d[1], c[2] + d[2], c[3] + d[3]>>

\* the constant the mean correction added to the new patch
PatchConstant ==
    IF ret.enforce_coarse_mean /\ ret.ilevel > levelmin(ret.before)
    THEN RSub(grid(gh, ret.ilevel).data[Zero3],
              At(grid(ret.before, ret.ilevel), Plus3(Zero3, ret.dx)))
    ELSE RZero

\* C16: after cut_patch(L, new_abs, new_extent, .) level L has extent
\* new_extent and offset_abs(L) = new_abs; up to the constant of the mean
\* correction every logical cell (i, j, k) of the new grid holds the old
\* grid's value at (i + dx, j + dy, k + dz), (dx, dy, dz) = new_abs - old_abs;
\* the relative offset of level L + 1, when it exists, is reduced by the
\* delta while its absolute offset, extent and data are unchanged; extents
\* and offsets of all other levels are unchanged.
C16_CutGeometry ==
    IsCut =>
        LET b == ret.before
            L == ret.ilevel
        IN  /\ levelmax(gh) = levelmax(b)
            /\ grid(gh, L).n = ret.n
            /\ gh.offabs[L + 1] = ret.xoff
            /\ ret.dx = [d \in Dims |-> ret.xoff[d] - b.offabs[L + 1][d]]
            /\ \A c \in Logical(ret.n) :
                  grid(gh, L).data[c] = RAdd(At(grid(b, L), Plus3(c, ret.dx)), PatchConstant)
            /\ L < levelmax(gh) =>
                  /\ grid(gh, L + 1).off = [d \in Dims |-> Sub32(grid(b, L + 1).off[d], ret.dx[d])]
                  /\ gh.offabs[L + 2] = b.offabs[L + 2]
                  /\ grid(gh, L + 1).n = grid(b, L + 1).n
                  /\ grid(gh, L + 1).data = grid(b, L + 1).data
            /\ \A M \in Levels(gh) \ {L, L + 1} :
                  /\ grid(gh, M).n = grid(b, M).n
                  /\ grid(gh, M).off = grid(b, M).off
                  /\ gh.offabs[M + 1] = b.offabs[M + 1]

\* a level below the finest was cut with a non-zero even delta, and every cell
\* of the new grid was copied from an initialised cell of the old one
C16_Witness ==
    /\ IsCut
    /\ ret.ilevel < levelmax(gh)
    /\ ret.dx # Zero3
    /\ \A d \in Dims : ret.dx[d] % 2 = 0
    /\ \A c \in Logical(ret.n) : grid(gh, ret.ilevel).data[c] # Indet
    /\ \E c \in Logical(ret.n) :
          grid(gh, ret.ilevel).data[c] # At(grid(ret.before, ret.ilevel), c)

\* the value the cut copies into cell c of the new patch
Cropped(c) == At(grid(ret.before, ret.ilevel), Plus3(c, ret.dx))

\* the cells of level L - 1 under the new patch: new_extent / 2 cells an axis
\* from the patch's new relative offset
Footprint == {Plus3(c, grid(gh, ret.ilevel).off) : c \in HalfBox(ret.n)}

MeanOver(f, S) == RDiv(RSum(f, S), RInt(Cardinality(S)))

\* the cut level lies above the all-domain level, the footprint is not empty
\* and every value the cut reads is an initialised cell
CutAboveBase ==
    /\ IsCut
    /\ ret.ilevel > levelmin(ret.before)
    /\ Footprint # {}
    /\ \A c \in Footprint : At(grid(ret.before, ret.ilevel - 1), c) # Indet
    /\ \A c \in Logical(ret.n) : Cropped(c) # Indet

-----------------------------------------------------------------------------
(* Claims about levelmin() after cut_patch (SpecPipe) *)

\* the levels whose grid has extent 2^L an axis and sits at the domain origin
AllDomain(g) ==
    {L \in Levels(g) : grid(g, L).n = Cube(Pow2(L)) /\ g.offabs[L + 1] = Zero3}

\* C18: after every cut_patch, levelmin() is the largest level whose grid
\* extends over the entire domain (extent 2^L in each dimension, at the
\* domain origin), and levelmin() <= levelmax().
C18_AllDomainLevel ==
    IsCut =>
        /\ levelmin(gh) \in AllDomain(gh)
        /\ \A L \in AllDomain(gh) : L <= levelmin(gh)
        /\ levelmin(gh) <= levelmax(gh)

-----------------------------------------------------------------------------
(* Claims about the non-spectral restriction pass (SpecPipe) *)

\* the levels hi, hi - 1, .., lo in this order
Downward(hi, lo) == [k \in 1..(hi - lo + 1) |-> hi + 1 - k]

\* C20: coarsen_density(rh, u, false) applies the restriction from level L
\* onto level L - 1 for every L from u.levelmax() down to rh.levelmin(), in
\* decreasing order of L, leaving no level of that range un-restricted.
C20_EveryLevelRestricted ==
    (ret.op = "coarsen_density" /\ ret.abort = "none") =>
        ret.restricted = Downward(levelmax(ret.before), refh.levelmin_)

-----------------------------------------------------------------------------
(* Claims about the blend loop of the spectral coupler routines (SpecFFT) *)

\* one of the two routines ran its blend loop on a fine array of even
\* extents, exactly twice the coarse extents
Blended ==
    /\ ret.op \in {"fft_coarsen", "fft_interpolate"}
    /\ ~ret.r.aborted
    /\ IsEven3(cf.v)
    /\ cf.v = <<2 * ret.nc[1], 2 * ret.nc[2], 2 * ret.nc[3]>>

\* C21: every coarse frequency index the blend loop visits is paired with a
\* fine bin inside the fine half-complex array, of the same signed wavenumber
\* on each axis; no two iterations share a fine bin or a coarse bin.
C21_BlendBins ==
    Blended =>
        /\ DOMAIN ret.loop =
              (0..(ret.nc[1] - 1)) \X (0..(ret.nc[2] - 1)) \X (0..(ret.nc[3] \div 2))
        /\ \A c \in DOMAIN ret.loop :
              LET f == ret.loop[c].fine
              IN  /\ f[1] \in 0..(cf.v[1] - 1)
                  /\ f[2] \in 0..(cf.v[2] - 1)
                  /\ f[3] \in 0..(cf.v[3] \div 2)
                  /\ ret.loop[c].qf \in 0..(cf.v[1] * cf.v[2] * (cf.v[3] \div 2 + 1) - 1)
                  /\ ret.loop[c].qc \in 0..(ret.nc[1] * ret.nc[2] * (ret.nc[3] \div 2 + 1) - 1)
                  /\ \A d \in Dims : Wavenumber(f[d], cf.v[d]) = Wavenumber(c[d], ret.nc[d])
        /\ \A a, b \in DOMAIN ret.loop :
              a # b => ret.loop[a].qf # ret.loop[b].qf /\ ret.loop[a].qc # ret.loop[b].qc

\* the loop met indices of negative wavenumber on both full axes
C21_Witness ==
    /\ Blended
    /\ ret.op = "fft_interpolate"
    /\ \E c \in DOMAIN ret.loop :
          Wavenumber(c[1], ret.nc[1]) < 0 /\ Wavenumber(c[2], ret.nc[2]) < 0 /\ c[3] > 0

-----------------------------------------------------------------------------
(* Claims about the domain shift (SpecShift) *)

\* the smallest exponent m with base_unit * 2^m >= 2^levelmin
SmallestM ==
    CHOOSE m \in 0..cf.levelmin :
        /\ cf.base_unit * Pow2(m) >= Pow2(cf.levelmin)
        /\ \A j \in 0..(m - 1) : cf.base_unit * Pow2(j) < Pow2(cf.levelmin)

\* C22: get_shift_unit(base_unit, levelmin) returns u >= 1 that divides
\* 2^levelmin, and u * base_unit * 2^m is a multiple of 2^levelmin for the
\* smallest m with base_unit * 2^m >= 2^levelmin; the recorded domain shift is
\* a multiple of u in each dimension and is (0, 0, 0) whenever levelmin ==
\* levelmax or no_shift is set without force_shift.
C22_ShiftUnit ==
    /\ ret.op = "get_shift_unit" =>
          /\ ret.u >= 1
          /\ Pow2(cf.levelmin) % ret.u = 0
          /\ (ret.u * cf.base_unit * Pow2(SmallestM)) % Pow2(cf.levelmin) = 0
    /\ ret.op = "shift" =>
          /\ \A d \in Dims : \E k \in (-Pow2(cf.levelmin))..Pow2(cf.levelmin) :
                ret.xshift[d] = k * get_shift_unit(cf.base_unit, cf.levelmin)
          /\ (cf.levelmin = cf.levelmax \/ (cf.no_shift /\ ~cf.force_shift)) =>
                ret.xshift = Zero3

\* a shift that is not zero was snapped to a unit wider than one cell
C22_Witness ==
    /\ ret.op = "shift"
    /\ get_shift_unit(cf.base_unit, cf.levelmin) > 1
    /\ \E d \in Dims : ret.xshift[d] # 0
    /\ cf.no_shift /\ cf.force_shift

-----------------------------------------------------------------------------
(* Claims about the constructed level geometry (SpecDeep, SpecRH) *)

\* the record was constructed by the last step
Built == ret.op = "refinement_hierarchy" /\ IsBuilt(refh)

\* the refinement levels levelmin + 1 .. levelmax of the record
Refined == (refh.levelmin_ + 1)..refh.levelmax_

\* C23: with a blocking factor B > 0 in effect, no forced ref_dims and no
\* forced equal extent, every refinement level of a constructed record has,
\* in each dimension, an extent and an absolute offset that are multiples
\* of B.
C23_BlockAligned ==
    (Built /\ EffBlocking(cf) > 0 /\ ~cf.bhave_nref /\ ~cf.equal_extent) =>
        \A L \in Refined : \A d \in Dims :
            /\ rh_size(refh, L, d) % EffBlocking(cf) = 0
            /\ rh_offset_abs(refh, L, d) % EffBlocking(cf) = 0

\* level L of the record lies inside its parent level in every dimension
InsideParent(r, L) ==
    \A d \in Dims :
        /\ rh_offset(r, L, d) >= 0
        /\ rh_offset(r, L, d) + CDiv(rh_size(r, L, d) + 1, 2) <= rh_size(r, L - 1, d)

\* C25: in every constructed record with levelmin < levelmax, every
\* refinement level lies inside its parent: its relative offset is not
\* negative and offset + ceil(size / 2) does not exceed the parent's size.
C25_InsideParent ==
    (Built /\ refh.levelmin_ < refh.levelmax_) =>
        \A L \in Refined : InsideParent(refh, L)

\* C26: in every constructed record, every refinement level has an even
\* extent in all three dimensions.
C26_EvenExtents ==
    Built => \A L \in Refined : \A d \in Dims : rh_size(refh, L, d) % 2 = 0

-----------------------------------------------------------------------------
(* Claims about configuration errors (SpecSetup) *)

\* the generator forces the dimensions of the finest level
DimsForced(c) ==
    c.levelmin # c.levelmax /\ "ref_extent" \notin c.keys /\ "ref_dims" \in c.keys

\* the five configuration inconsistencies
BadUnits(c) ==
    c.gridding_unit # 2 /\ c.blocking_factor # 0 /\ c.blocking_factor # c.gridding_unit
BadAlignTop(c) ==
    c.align_top /\ DimsForced(c)
        /\ \E d \in Dims : c.lnref[d] % Pow2(c.levelmax - c.levelmin) # 0
BadEqualExtent(c) ==
    c.equal_extent /\ DimsForced(c) /\ \E d, e \in Dims : c.lnref[d] # c.lnref[e]
BadBoxRegion(c) ==
    c.region = "box" /\ c.levelmin # c.levelmax
        /\ \/ ("ref_offset" \notin c.keys /\ "ref_center" \notin c.keys)
           \/ ("ref_extent" \notin c.keys /\ "ref_dims" \notin c.keys)
BadRegionName(c) == c.region \notin Registered

Inconsistent(c) ==
    BadUnits(c) \/ BadAlignTop(c) \/ BadEqualExtent(c) \/ BadBoxRegion(c) \/ BadRegionName(c)

\* C24: under each of the five configuration inconsistencies the start of
\* the pipeline ends in a fatal error: no geometry record ever exists, the
\* region generator's bounding box is never updated, a malformed region
\* specification or an unknown generator name stops before the constructor
\* runs, and the constructor, once entered, can only throw.
C24_InconsistencyFatal ==
    Inconsistent(cf) =>
        /\ refh = NoRefh
        /\ pc \in {"select", "construct", "failed"}
        /\ (pc = "construct" => /\ ~wk.updated
                                /\ ~(BadBoxRegion(cf) \/ BadRegionName(cf))
                                /\ ~ENABLED BuildHierarchy)
        /\ (pc = "select" /\ (BadBoxRegion(cf) \/ BadRegionName(cf))
                => ~ENABLED SelectRegion)
        /\ (pc = "failed" => "error" \in DOMAIN ret /\ (wk # NoWork => ~wk.updated))

\* an unequal forced ref_dims under force_equal_extent has stopped the
\* constructor after the generator was created
C24_Witness ==
    /\ BadEqualExtent(cf) /\ ~BadUnits(cf) /\ ~BadAlignTop(cf)
    /\ pc = "failed"
    /\ ret.op = "refinement_hierarchy"
    /\ ret.error = EqualExtentError
    /\ wk # NoWork /\ ~wk.updated
    /\ refh = NoRefh

-----------------------------------------------------------------------------
(* Claims about the leaf cells of a masked hierarchy (SpecMask) *)

\* the cells of the finer levels that lie inside cell c of level L
RECURSIVE Descendants(_, _, _)
Descendants(g, L, c) ==
    IF L >= levelmax(g) THEN {}
    ELSE {<<L + 1, x>> : x \in ChildCells(g, L, c)}
            \cup UNION {Descendants(g, L + 1, x) : x \in ChildCells(g, L, c)}

\* the leaf cells of level L
Leaves(g, L) == {c \in Logical(grid(g, L).n) : MaskValue(g, L, c) = 1}

\* the volume of the leaf cells of the levels L..levelmax(), in cells of
\* levelmax()
RECURSIVE LeafVolume(_, _)
LeafVolume(g, L) ==
    IF L > levelmax(g) THEN 0
    ELSE Cardinality(Leaves(g, L)) * Pow2(3 * (levelmax(g) - L)) + LeafVolume(g, L + 1)

\* the leaf cells cover every position of the domain exactly once: no leaf
\* holds an in-mask cell of a finer level, and the leaf volumes add up to
\* the volume of the domain
TilesDomain(g) ==
    /\ \A L \in levelmin(g)..levelmax(g) : \A c \in Leaves(g, L) :
          \A x \in Descendants(g, L, c) : MaskValue(g, x[1], x[2]) < 0
    /\ LeafVolume(g, levelmin(g)) = Pow2(3 * levelmax(g))

\* C27: after add_refinement_mask on a hierarchy with levelmin() < levelmax()
\* whose patches have even extents and lie inside their parents, whatever
\* query_point answered, the leaf cells of the levels levelmin()..levelmax()
\* tile the domain exactly once.
C27_LeavesTile ==
    (ret.op = "add_refinement_mask" /\ levelmin(gh) < levelmax(gh)) => TilesDomain(gh)

\* the hierarchy with no mask built: the queries fall back to the geometry
Unmasked(g) == [g EXCEPT !.bhave_refmask = FALSE]

\* query_point answered true for every block
AllTrue == ret.op = "add_refinement_mask" /\ ret.Q = QueryBlocks(gh)

\* C28: when query_point answers true for every point and all patches have
\* even extents, the mask built by add_refinement_mask answers is_refined and
\* is_in_mask for every cell of every level as the geometric fallback does
\* without a mask, and count_leaf_cells(lmin, lmax) is the same with and
\* without the mask for every range of levels.
C28_MaskIsGeometry ==
    AllTrue =>
        /\ \A L \in levelmin(gh)..levelmax(gh) : \A c \in Logical(grid(gh, L).n) :
              /\ is_refined(gh, L, c) <=> is_refined(Unmasked(gh), L, c)
              /\ is_in_mask(gh, L, c) <=> is_in_mask(Unmasked(gh), L, c)
        /\ \A lo \in levelmin(gh)..levelmax(gh) : \A hi \in lo..levelmax(gh) :
              count_leaf_cells(gh, lo, hi) = count_leaf_cells(Unmasked(gh), lo, hi)

\* a mask was built under all-true answers on two refinement levels, the
\* finer one at a non-zero offset, with refined and unrefined cells on the
\* level in between
C28_Witness ==
    /\ AllTrue
    /\ gh.bhave_refmask
    /\ levelmax(gh) = levelmin(gh) + 2
    /\ \E d \in Dims : offset(gh, levelmax(gh), d) > 0
    /\ \E c, x \in Logical(grid(gh, levelmax(gh) - 1).n) :
          /\ is_refined(gh, levelmax(gh) - 1, c)
          /\ ~is_refined(gh, levelmax(gh) - 1, x)

-----------------------------------------------------------------------------
(* Claims about assignment and copy construction (SpecAssign) *)

\* a answers every query as b does, and holds one mask per level
AnswersAs(a, b) ==
    /\ Len(a.ref_masks) = Len(a.pgrids)
    /\ levelmax(a) = levelmax(b)
    /\ levelmin(a) = levelmin(b)
    /\ \A L \in Levels(b) :
          /\ \A d \in Dims :
                /\ size(a, L, d) = size(b, L, d)
                /\ offset(a, L, d) = offset(b, L, d)
                /\ offset_abs(a, L, d) = offset_abs(b, L, d)
          /\ grid(a, L).data = grid(b, L).data
          /\ \A c \in Logical(grid(b, L).n) :
                /\ is_in_mask(a, L, c) <=> is_in_mask(b, L, c)
                /\ is_refined(a, L, c) <=> is_refined(b, L, c)
    /\ count_leaf_cells(a, levelmin(b), levelmax(b))
          = count_leaf_cells(b, levelmin(b), levelmax(b))

\* C29: after other = gh, whatever state other was in, and after other is
\* copy-constructed from gh, other answers levelmax, levelmin, size, offset,
\* offset_abs, the cell values, is_in_mask, is_refined and count_leaf_cells
\* exactly as gh does, and holds exactly one refinement mask per level.
C29_AssignCopies ==
    ret.op \in {"operator=", "GridHierarchy"} => AnswersAs(other, gh)

-----------------------------------------------------------------------------
(* Claims about the swift output plugin (SpecSwift) *)

IsWrite == pc = "written"

====
